---------------------------- MODULE Spec2Model ----------------------------
(***************************************************************************)
(* A model of mcp-hemnet's extraction-and-query pipeline (src/src/index.ts, *)
(* the server module from line 867 on): the query builders, the location   *)
(* resolver, the page fetcher, the field extractors and the tool handlers, *)
(* and of the entry points that serve it (main, index.ts:835, and the      *)
(* worker, src/src/worker.ts).                                              *)
(*                                                                         *)
(* JavaScript values are modelled as follows.  A string is a TLA+ string   *)
(* and is taken apart character by character with SubSeq.  An optional     *)
(* field of an options object is <<>> when the field is undefined and      *)
(* <<v>> when it is defined with value v.  The module-level variables      *)
(* browserRenderUrl / browserRenderApiKey hold "" for undefined: the code  *)
(* only ever tests them for truthiness.                                    *)
(***************************************************************************)
EXTENDS Integers, Sequences, FiniteSets, TLC

VARIABLES
    browserRenderUrl,     \* index.ts:1010  module-level renderer base URL
    browserRenderApiKey,  \* index.ts:1020  module-level renderer API key
    pc,                   \* position of the operation in progress
    options,              \* the options object handed to a URL builder
    params,               \* the URLSearchParams entries of the last builder call
    url,                  \* the URL returned by the last builder call
    url2,                 \* the URL returned by a second call with the same input
    cfg1,                 \* browserRenderUrl at the time of the first call
    op,                   \* the operation in progress ("" when none)
    location,             \* the location name handed to the operation
    net,                  \* the network requests issued by the operation in progress
    locResult,            \* what findLocationId returned: <<>> for null, <<r>> for r
    rendered,             \* the document fetchViaRenderer returned for the page (<<>>: none)
    outcome,              \* how the operation settled: <<>> while it runs, else <<result>>
    direct,               \* the response to fetchJson's direct request (<<>>: none yet)
    json,                 \* how fetchJson settled: <<>> while it runs, else <<result>>
    entry,                \* the entry point that runs the server ("" before it starts)
    env,                  \* BROWSER_RENDER_URL / _API_KEY of the environment ("": unset)
    payload               \* what the tool handler returned (<<>>: nothing yet)

cfgVars   == <<browserRenderUrl, browserRenderApiKey>>
buildVars == <<options, params, url, url2, cfg1>>
ioVars    == <<op, location, net, locResult, rendered, outcome>>
jsonVars  == <<direct, json>>
srvVars   == <<entry, env, payload>>

vars == <<cfgVars, pc, buildVars, ioVars, jsonVars, srvVars>>

---------------------------------------------------------------------------
(* Bounds of the model *)

\* longest propertyTypes array handed to a builder
MaxTypes == 2
\* largest number of fields defined in one options object
MaxPresent == 2

---------------------------------------------------------------------------
(* JavaScript string primitives *)

CharAt(s, i) == SubSeq(s, i, i)

\* String.prototype.toLowerCase, one character
LowerOf ==
    LET UpperChars == "ABCDEFGHIJKLMNOPQRSTUVWXYZÅÄÖ"
        LowerChars == "abcdefghijklmnopqrstuvwxyzåäö"
    IN  [c \in {CharAt(UpperChars, i) : i \in 1..Len(UpperChars)} |->
            CharAt(LowerChars,
                   CHOOSE i \in 1..Len(UpperChars) : CharAt(UpperChars, i) = c)]

lowerChar(c) == IF c \in DOMAIN LowerOf THEN LowerOf[c] ELSE c

RECURSIVE toLowerCase(_)
toLowerCase(s) ==
    IF Len(s) = 0 THEN ""
    ELSE lowerChar(CharAt(s, 1)) \o toLowerCase(SubSeq(s, 2, Len(s)))

\* String.prototype.includes
includes(s, t) ==
    \E i \in 1..(Len(s) - Len(t) + 1) : SubSeq(s, i, i + Len(t) - 1) = t

\* String.prototype.trim: leading and trailing white space removed
WhiteSpace == {" ", "\t", "\n", "\r"}

RECURSIVE trimStart(_)
trimStart(s) ==
    IF Len(s) > 0 /\ CharAt(s, 1) \in WhiteSpace
    THEN trimStart(SubSeq(s, 2, Len(s))) ELSE s

RECURSIVE trimEnd(_)
trimEnd(s) ==
    IF Len(s) > 0 /\ CharAt(s, Len(s)) \in WhiteSpace
    THEN trimEnd(SubSeq(s, 1, Len(s) - 1)) ELSE s

trim(s) == trimEnd(trimStart(s))

\* String.prototype.startsWith
startsWith(s, t) == Len(t) <= Len(s) /\ SubSeq(s, 1, Len(t)) = t

\* String(n) for an integer n: its decimal text
RECURSIVE NatText(_)
NatText(n) ==
    IF n < 10 THEN CharAt("0123456789", n + 1)
    ELSE NatText(n \div 10) \o CharAt("0123456789", (n % 10) + 1)

\* variant: n.toFixed(2) in place of String(n)
String_toFixed(n) == NatText(n) \o ".00"

String(n) == IF n < 0 THEN "-" \o NatText(0 - n) ELSE NatText(n)

\* obj[key] on a plain object literal: an own key gives its value, a key
\* inherited from Object.prototype a (truthy) non-string whose text is
\* NativeText, any other key undefined ("")
InheritedKeys == {"constructor", "__proto__"}
NativeText == "function Object() { [native code] }"

Lookup(table, key) ==
    IF key \in DOMAIN table THEN table[key]
    ELSE IF key \in InheritedKeys THEN NativeText
    ELSE ""

---------------------------------------------------------------------------
(* Constants of the program *)

PROPERTY_TYPES ==
    ("villa" :> "villa") @@ ("house" :> "villa") @@
    ("apartment" :> "bostadsratt") @@ ("lägenhet" :> "bostadsratt") @@
    ("bostadsrätt" :> "bostadsratt") @@ ("townhouse" :> "radhus") @@
    ("radhus" :> "radhus") @@ ("holiday" :> "fritidsboende") @@
    ("fritidshus" :> "fritidsboende") @@ ("plot" :> "tomt") @@
    ("tomt" :> "tomt") @@ ("farm" :> "gard") @@ ("gård" :> "gard")

SORT_ORDERS ==
    [ newest |-> "newest", oldest |-> "oldest", cheapest |-> "price_asc",
      expensive |-> "price_desc", largest |-> "size_desc",
      smallest |-> "size_asc", lowest_fee |-> "fee_asc",
      highest_fee |-> "fee_desc" ]

---------------------------------------------------------------------------
(* URLSearchParams *)

\* one entry appended by params.append(name, value)
Entry(name, value) == [name |-> name, value |-> value]

\* variant: the parameters start from a default sort order
NewParams_withDefault == <<Entry("order", "newest")>>

\* new URLSearchParams(): no entry
NewParams == <<>>

\* application/x-www-form-urlencoded serialisation of one character: the
\* characters left alone, the space as "+", the others as the percent-encoded
\* bytes of their UTF-8 form (tabulated for the characters the model uses)
FormSafeChars ==
    LET safe == "abcdefghijklmnopqrstuvwxyzABCDEFGHIJKLMNOPQRSTUVWXYZ0123456789*-._"
    IN  {CharAt(safe, i) : i \in 1..Len(safe)}

formChar(c) ==
    IF c \in FormSafeChars THEN c
    ELSE CASE c = " " -> "+"
           [] c = "[" -> "%5B"
           [] c = "]" -> "%5D"
           [] c = "/" -> "%2F"
           [] c = "(" -> "%28"
           [] c = ")" -> "%29"
           [] c = "{" -> "%7B"
           [] c = "}" -> "%7D"
           [] c = "å" -> "%C3%A5"
           [] c = "ä" -> "%C3%A4"
           [] c = "ö" -> "%C3%B6"
           [] OTHER -> "%3F"

RECURSIVE formEncode(_)
formEncode(s) ==
    IF Len(s) = 0 THEN ""
    ELSE formChar(CharAt(s, 1)) \o formEncode(SubSeq(s, 2, Len(s)))

\* URLSearchParams.prototype.toString: name=value pairs joined by "&"
RECURSIVE paramsToString(_)
paramsToString(p) ==
    IF Len(p) = 0 THEN ""
    ELSE formEncode(p[1].name) \o "=" \o formEncode(p[1].value)
         \o (IF Len(p) = 1 THEN "" ELSE "&" \o paramsToString(Tail(p)))

---------------------------------------------------------------------------
(* Truthiness of an optional field *)

TruthyNum(o)  == o # <<>> /\ o[1] # 0
TruthyStr(o)  == o # <<>> /\ o[1] # ""
TruthyBool(o) == o # <<>> /\ o[1]

---------------------------------------------------------------------------
(* URL builders *)

\* PROPERTY_TYPES[type.toLowerCase()] || type
mappedType(type) ==
    LET found == Lookup(PROPERTY_TYPES, toLowerCase(type))
    IN  IF found # "" THEN found ELSE type

\* variant: params.set in place of params.append, which keeps the last type only
itemTypeEntries_set(types) ==
    <<Entry("item_types[]", mappedType(types[Len(types)]))>>

\* variant: the parameter name without its [] suffix
itemTypeEntries_noSuffix(types) ==
    [i \in 1..Len(types) |-> Entry("item_types", mappedType(types[i]))]

\* for (const type of options.propertyTypes) params.append("item_types[]", mapped)
itemTypeEntries(types) ==
    [i \in 1..Len(types) |-> Entry("item_types[]", mappedType(types[i]))]

\* variant: the bucket table without its month entry
daysMap_noMonth == (1 :> "1d") @@ (3 :> "3d") @@ (7 :> "1w") @@ (14 :> "2w")

ncMap == [show |-> "1", only |-> "2", hide |-> "0"]

daysMap == (1 :> "1d") @@ (3 :> "3d") @@ (7 :> "1w") @@ (14 :> "2w") @@ (30 :> "1m")

\* SORT_ORDERS[options.sortOrder.toLowerCase()] || options.sortOrder
mappedOrder(sortOrder) ==
    LET found == Lookup(SORT_ORDERS, toLowerCase(sortOrder))
    IN  IF found # "" THEN found ELSE sortOrder

\* the entries buildSearchUrl appends, in the order of its statements: each
\* "if (c) params.append(n, v)" adds <<Entry(n, v)>> when c holds and nothing
\* otherwise
searchParams(o) ==
    NewParams
    \o (IF TruthyStr(o.locationId)
        THEN <<Entry("location_ids[]", o.locationId[1])>> ELSE <<>>)
    \o (IF TruthyNum(o.minRooms)
        THEN <<Entry("rooms_min", String(o.minRooms[1]))>> ELSE <<>>)
    \o (IF TruthyNum(o.maxRooms)
        THEN <<Entry("rooms_max", String(o.maxRooms[1]))>> ELSE <<>>)
    \o (IF TruthyNum(o.minPrice)
        THEN <<Entry("price_min", String(o.minPrice[1]))>> ELSE <<>>)
    \o (IF TruthyNum(o.maxPrice)
        THEN <<Entry("price_max", String(o.maxPrice[1]))>> ELSE <<>>)
    \o (IF TruthyNum(o.minArea)
        THEN <<Entry("living_area_min", String(o.minArea[1]))>> ELSE <<>>)
    \o (IF TruthyNum(o.maxArea)
        THEN <<Entry("living_area_max", String(o.maxArea[1]))>> ELSE <<>>)
    \o (IF TruthyNum(o.maxFee)
        THEN <<Entry("fee_max", String(o.maxFee[1]))>> ELSE <<>>)
    \o (IF o.propertyTypes # <<>> /\ Len(o.propertyTypes[1]) > 0
        THEN itemTypeEntries(o.propertyTypes[1]) ELSE <<>>)
    \o (IF TruthyStr(o.newConstruction)
        THEN <<Entry("new_construction", ncMap[o.newConstruction[1]])>> ELSE <<>>)
    \o (IF TruthyStr(o.keywords)
        THEN <<Entry("keywords", o.keywords[1])>> ELSE <<>>)
    \o (IF TruthyStr(o.openHouse)
        THEN <<Entry("upcoming_open_house", o.openHouse[1])>> ELSE <<>>)
    \o (IF TruthyBool(o.hasBalcony) THEN <<Entry("balcony", "1")>> ELSE <<>>)
    \o (IF TruthyBool(o.hasElevator) THEN <<Entry("elevator", "1")>> ELSE <<>>)
    \o (IF TruthyNum(o.daysListed)
        THEN <<Entry("published",
                     IF o.daysListed[1] \in DOMAIN daysMap
                     THEN daysMap[o.daysListed[1]]
                     ELSE String(o.daysListed[1]))>>
        ELSE <<>>)
    \o (IF TruthyStr(o.sortOrder)
        THEN <<Entry("order", mappedOrder(o.sortOrder[1]))>> ELSE <<>>)

\* variant: the search URL is wrapped for the renderer once one is configured
buildSearchUrl_viaRenderer(o) ==
    (IF browserRenderUrl # "" THEN browserRenderUrl \o "?url=" ELSE "")
    \o "https://www.hemnet.se/bostader?" \o paramsToString(searchParams(o))

buildSearchUrl(o) == "https://www.hemnet.se/bostader?" \o paramsToString(searchParams(o))

\* variant: the sold search takes every filter of the search for listings
soldSearchParams_asSearch(o) == searchParams(o)

\* the entries buildSoldSearchUrl appends, in the order of its statements
soldSearchParams(o) ==
    NewParams
    \o (IF TruthyStr(o.locationId)
        THEN <<Entry("location_ids[]", o.locationId[1])>> ELSE <<>>)
    \o (IF TruthyNum(o.minRooms)
        THEN <<Entry("rooms_min", String(o.minRooms[1]))>> ELSE <<>>)
    \o (IF TruthyNum(o.maxRooms)
        THEN <<Entry("rooms_max", String(o.maxRooms[1]))>> ELSE <<>>)
    \o (IF TruthyNum(o.minPrice)
        THEN <<Entry("price_min", String(o.minPrice[1]))>> ELSE <<>>)
    \o (IF TruthyNum(o.maxPrice)
        THEN <<Entry("price_max", String(o.maxPrice[1]))>> ELSE <<>>)
    \o (IF TruthyNum(o.minArea)
        THEN <<Entry("living_area_min", String(o.minArea[1]))>> ELSE <<>>)
    \o (IF TruthyNum(o.maxArea)
        THEN <<Entry("living_area_max", String(o.maxArea[1]))>> ELSE <<>>)
    \o (IF o.propertyTypes # <<>> /\ Len(o.propertyTypes[1]) > 0
        THEN itemTypeEntries(o.propertyTypes[1]) ELSE <<>>)
    \o (IF TruthyStr(o.sortOrder)
        THEN <<Entry("order", mappedOrder(o.sortOrder[1]))>> ELSE <<>>)

buildSoldSearchUrl(o) ==
    "https://www.hemnet.se/salda/bostader?" \o paramsToString(soldSearchParams(o))

---------------------------------------------------------------------------
(* The options objects handed to the builders *)

NumberFields == {"minRooms", "maxRooms", "minPrice", "maxPrice",
                 "minArea", "maxArea", "maxFee", "daysListed"}
StringFields == {"locationId", "newConstruction", "keywords", "openHouse",
                 "sortOrder"}
BooleanFields == {"hasBalcony", "hasElevator"}
Fields == NumberFields \cup StringFields \cup BooleanFields \cup {"propertyTypes"}

\* the type names a caller may put in propertyTypes: one the table maps once it
\* is lower-cased, one it does not know
TypeNames == {"Apartment", "loft"}

RECURSIVE SeqsUpTo(_, _)
SeqsUpTo(S, n) ==
    IF n = 0 THEN {<<>>}
    ELSE LET shorter == SeqsUpTo(S, n - 1)
         IN  shorter \cup {Append(q, x) : q \in shorter, x \in S}

\* the values a defined field may hold, falsy ones (0, "", false, []) included
FieldValues(f) ==
    CASE f = "maxPrice"        -> {0, 3000000}
      [] f = "daysListed"      -> {0, 7, 10}
      [] f \in NumberFields    -> {0, 2}
      [] f = "locationId"      -> {"", "17744"}
      [] f = "newConstruction" -> {"show", "only", "hide"}
      [] f = "keywords"        -> {"", "sea view"}
      [] f = "openHouse"       -> {"today", "weekend"}
      [] f = "sortOrder"       -> {"", "Cheapest", "random"}
      [] f \in BooleanFields   -> {TRUE, FALSE}
      [] f = "propertyTypes"   -> SeqsUpTo(TypeNames, MaxTypes)

EmptyOptions == [f \in Fields |-> <<>>]

RECURSIVE OptionsUpTo(_)
OptionsUpTo(k) ==
    IF k = 0 THEN {EmptyOptions}
    ELSE LET fewer == OptionsUpTo(k - 1)
         IN  fewer \cup
             UNION { UNION { {[o EXCEPT ![f] = <<v>>] : v \in FieldValues(f)}
                             : f \in {g \in Fields : o[g] = <<>>} }
                     : o \in fewer }

\* options that set the property types and the listing age only: type names
\* the table maps, does not know, and that name an inherited property; ages
\* in and out of the bucket table
FilterOptions ==
    {[EmptyOptions EXCEPT !["propertyTypes"] = t, !["daysListed"] = d] :
        t \in {<<>>} \cup {<<ts>> : ts \in SeqsUpTo({"Apartment", "loft", "House",
                                                     "constructor"}, MaxTypes)},
        d \in {<<>>} \cup {<<n>> : n \in {0, 1, 2, 3, 7, 14, 30, 31}}}

AllOptions == OptionsUpTo(MaxPresent) \cup FilterOptions

RenderUrls == {"https://render.example/render"}
ApiKeys    == {"secret"}

---------------------------------------------------------------------------
(* Renderer configuration *)

setBrowserRenderUrl(u) ==
    /\ pc \in {"idle", "search", "sold", "done"}
    /\ browserRenderUrl # u
    /\ browserRenderUrl' = u
    /\ UNCHANGED <<browserRenderApiKey, pc, buildVars, ioVars, jsonVars, srvVars>>

setBrowserRenderApiKey(k) ==
    /\ pc \in {"idle", "search", "sold", "done"}
    /\ browserRenderApiKey # k
    /\ browserRenderApiKey' = k
    /\ UNCHANGED <<browserRenderUrl, pc, buildVars, ioVars, jsonVars, srvVars>>

---------------------------------------------------------------------------
(* Calls of the builders *)

CallBuildSearchUrl ==
    /\ pc = "idle"
    /\ \E o \in AllOptions :
          /\ options' = o
          /\ params' = searchParams(o)
          /\ url' = buildSearchUrl(o)
    /\ pc' = "search"
    /\ cfg1' = browserRenderUrl
    /\ UNCHANGED <<cfgVars, url2, ioVars, jsonVars, srvVars>>

CallBuildSoldSearchUrl ==
    /\ pc = "idle"
    /\ \E o \in AllOptions :
          /\ options' = o
          /\ params' = soldSearchParams(o)
          /\ url' = buildSoldSearchUrl(o)
    /\ pc' = "sold"
    /\ cfg1' = browserRenderUrl
    /\ UNCHANGED <<cfgVars, url2, ioVars, jsonVars, srvVars>>

\* the same builder called once more with the same options object
CallAgain ==
    /\ pc \in {"search", "sold"}
    /\ pc' = IF pc = "search" THEN "search2" ELSE "sold2"
    /\ url2' = IF pc = "search" THEN buildSearchUrl(options)
                                ELSE buildSoldSearchUrl(options)
    /\ UNCHANGED <<cfgVars, options, params, url, cfg1, ioVars, jsonVars, srvVars>>

Init ==
    /\ browserRenderUrl = ""
    /\ browserRenderApiKey = ""
    /\ pc = "idle"
    /\ options = EmptyOptions
    /\ params = <<>>
    /\ url = ""
    /\ url2 = ""
    /\ cfg1 = ""
    /\ op = ""
    /\ location = ""
    /\ net = <<>>
    /\ locResult = <<>>
    /\ rendered = <<>>
    /\ outcome = <<>>
    /\ direct = <<>>
    /\ json = <<>>
    /\ entry = ""
    /\ env = [url |-> "", key |-> ""]
    /\ payload = <<>>


---------------------------------------------------------------------------
(* Documents *)

(* The markup the renderer returns is held as the document it denotes: a     *)
(* sequence of nodes, each a text node or an element with its attributes (in *)
(* source order) and its child nodes.  Markup(doc) is the markup text, which *)
(* is what html.includes and html.match read; cheerio.load(html) is doc.     *)
TextNode(t) == [tag |-> "#text", attrs |-> <<>>, text |-> t, kids |-> <<>>]
Element(tag, attrs, kids) == [tag |-> tag, attrs |-> attrs, text |-> "", kids |-> kids]

isText(n) == n.tag = "#text"

\* $(el).attr(name): "" stands for undefined
attr(n, name) ==
    IF \E i \in 1..Len(n.attrs) : n.attrs[i][1] = name
    THEN n.attrs[CHOOSE i \in 1..Len(n.attrs) :
                    /\ n.attrs[i][1] = name
                    /\ \A j \in 1..(i - 1) : n.attrs[j][1] # name][2]
    ELSE ""

RECURSIVE attrsMarkup(_, _)
attrsMarkup(attrs, i) ==
    IF i > Len(attrs) THEN ""
    ELSE " " \o attrs[i][1] \o "=\"" \o attrs[i][2] \o "\"" \o attrsMarkup(attrs, i + 1)

RECURSIVE nodeMarkup(_)
RECURSIVE nodesMarkup(_, _)
nodeMarkup(n) ==
    IF isText(n) THEN n.text
    ELSE "<" \o n.tag \o attrsMarkup(n.attrs, 1) \o ">"
         \o nodesMarkup(n.kids, 1) \o "</" \o n.tag \o ">"

nodesMarkup(nodes, i) ==
    IF i > Len(nodes) THEN ""
    ELSE nodeMarkup(nodes[i]) \o nodesMarkup(nodes, i + 1)

Markup(doc) == nodesMarkup(doc, 1)

---------------------------------------------------------------------------
(* HTTP helpers *)

\* a request as it leaves the process: by the direct fetch or to the renderer
DirectRequest(target) ==
    [via |-> "direct", to |-> target, target |-> target, auth |-> ""]

\* variant: the request to the renderer never carries the API key
RendererRequest_noAuth(target) ==
    [via |-> "renderer", to |-> browserRenderUrl, target |-> target, auth |-> ""]

RendererRequest(target) ==
    [via |-> "renderer", to |-> browserRenderUrl, target |-> target,
     auth |-> IF browserRenderApiKey # "" THEN "Bearer " \o browserRenderApiKey ELSE ""]

\* the outcome of an awaited call: err = "" when it fulfilled with value
Fulfilled(v) == [err |-> "", value |-> <<v>>]
Rejected(e)  == [err |-> e, value |-> <<>>]

\* what the renderer may answer: an HTTP status, a body that is JSON or not,
\* and the error and html members of that JSON ("" and <<>> when missing)
RendererResponse(ok, isJson, error, html) ==
    [fails |-> FALSE, ok |-> ok, isJson |-> isJson, error |-> error, html |-> html]

\* the request itself fails (fetch rejects): there is no response
TransportError ==
    [fails |-> TRUE, ok |-> FALSE, isJson |-> FALSE, error |-> "", html |-> <<>>]

\* variant: the html member is returned without a look at it
rendererResult_anyHtml(resp) ==
    IF resp.fails THEN Rejected("fetch failed")
    ELSE IF ~ resp.ok THEN Rejected("Browser render failed")
    ELSE IF ~ resp.isJson THEN Rejected("SyntaxError")
    ELSE IF resp.error # "" THEN Rejected("Browser render error")
    ELSE Fulfilled(resp.html)

\* fetchViaRenderer from the response on (lines 1042-1054)
rendererResult(resp) ==
    IF resp.fails THEN Rejected("fetch failed")
    ELSE IF ~ resp.ok THEN Rejected("Browser render failed")
    ELSE IF ~ resp.isJson THEN Rejected("SyntaxError")
    ELSE IF resp.error # "" THEN Rejected("Browser render error")
    ELSE IF Markup(resp.html) = "" THEN Rejected("Browser render returned empty HTML")
    ELSE Fulfilled(resp.html)

\* JSON.parse, tabulated for the bodies the model uses (any other text
\* throws).  A value is an array of location hits or something that is no
\* array; the name a hit lacks is "", and its location_type is <<>> when the
\* hit has none and <<t>> when it has the text t.
JsonTexts ==
    ("[]" :> [kind |-> "array", items |-> <<>>]) @@
    ("null" :> [kind |-> "other", items |-> <<>>]) @@
    ("{\"error\":\"no\"}" :> [kind |-> "other", items |-> <<>>]) @@
    ("[{\"id\":473401,\"name\":\"Atlantis\",\"location_type\":\"city\"}]"
        :> [kind |-> "array",
            items |-> <<[id |-> 473401, name |-> "Atlantis",
                         location_type |-> <<"city">>]>>]) @@
    ("[{\"id\":925,\"name\":\"Lunde\",\"location_type\":\"\"}]"
        :> [kind |-> "array",
            items |-> <<[id |-> 925, name |-> "Lunde", location_type |-> <<"">>]>>]) @@
    ("[{\"id\":31,\"name\":\"Atlantis gata\",\"location_type\":\" Street\"}]"
        :> [kind |-> "array",
            items |-> <<[id |-> 31, name |-> "Atlantis gata",
                         location_type |-> <<" Street">>]>>]) @@
    ("[{\"id\":898740},{\"id\":17744,\"name\":\"Stockholm\",\"location_type\":\"municipality\"}]"
        :> [kind |-> "array",
            items |-> <<[id |-> 898740, name |-> "", location_type |-> <<>>],
                        [id |-> 17744, name |-> "Stockholm",
                         location_type |-> <<"municipality">>]>>])

JsonParse(text) ==
    IF text \in DOMAIN JsonTexts THEN Fulfilled(JsonTexts[text])
    ELSE Rejected("SyntaxError")

Min(S) == CHOOSE x \in S : \A y \in S : x <= y

\* html.match(/<pre[^>]*>([\s\S]*?)<\/pre>/i): <<>> for null, else <<group 1>>:
\* the leftmost "<pre", the first ">" after it, the first "</pre>" after that
preMatch(text) ==
    LET starts == {i \in 1..(Len(text) - 3) :
                      toLowerCase(SubSeq(text, i, i + 3)) = "<pre"}
        ends   == {j \in (Min(starts) + 4)..Len(text) : CharAt(text, j) = ">"}
        closes == {k \in (Min(ends) + 1)..(Len(text) - 5) :
                      toLowerCase(SubSeq(text, k, k + 5)) = "</pre>"}
    IN  IF starts = {} THEN <<>>
        ELSE IF ends = {} THEN <<>>
        ELSE IF closes = {} THEN <<>>
        ELSE <<SubSeq(text, Min(ends) + 1, Min(closes) - 1)>>

\* fetchJson after the renderer answered (lines 1087-1096)
jsonFromRendered(res) ==
    IF res.err # "" THEN res
    ELSE IF preMatch(Markup(res.value[1])) = <<>> THEN Rejected("Could not extract JSON")
    ELSE IF JsonParse(trim(preMatch(Markup(res.value[1]))[1])).err # ""
         THEN Rejected("Could not extract JSON")
    ELSE JsonParse(trim(preMatch(Markup(res.value[1]))[1]))

---------------------------------------------------------------------------
(* Location lookup *)

COMMON_LOCATIONS ==
    ("botkyrka" :> "17885") @@ ("danderyd" :> "17892") @@ ("ekerö" :> "17896") @@
    ("göteborg" :> "17920") @@ ("haninge" :> "17928") @@
    ("helsingborg" :> "17932") @@ ("huddinge" :> "17936") @@
    ("järfälla" :> "17951") @@ ("jönköping" :> "17748") @@
    ("lidingö" :> "17846") @@ ("linköping" :> "17847") @@ ("lund" :> "17987") @@
    ("malmö" :> "17989") @@ ("nacka" :> "17853") @@ ("norrköping" :> "18002") @@
    ("norrtälje" :> "18003") @@ ("salem" :> "18019") @@ ("sigtuna" :> "18020") @@
    ("sollentuna" :> "18027") @@ ("solna" :> "18028") @@ ("stockholm" :> "17744") @@
    ("sundbyberg" :> "18042") @@ ("södertälje" :> "17775") @@ ("tyresö" :> "17792") @@
    ("täby" :> "17793") @@ ("upplands väsby" :> "17798") @@
    ("upplands-väsby" :> "17798") @@ ("uppsala" :> "17745") @@
    ("vallentuna" :> "17804") @@ ("värmdö" :> "17818") @@ ("västerås" :> "17821") @@
    ("örebro" :> "17757") @@ ("österåker" :> "17769")

\* encodeURIComponent, one character (tabulated for the characters the model uses)
UriSafeChars ==
    LET safe == "abcdefghijklmnopqrstuvwxyzABCDEFGHIJKLMNOPQRSTUVWXYZ0123456789-_.!~*'()"
    IN  {CharAt(safe, i) : i \in 1..Len(safe)}

uriChar(c) ==
    IF c \in UriSafeChars THEN c
    ELSE CASE c = " " -> "%20"
           [] c = "å" -> "%C3%A5"
           [] c = "ä" -> "%C3%A4"
           [] c = "ö" -> "%C3%B6"
           [] c = "Å" -> "%C3%85"
           [] c = "Ä" -> "%C3%84"
           [] c = "Ö" -> "%C3%96"
           [] c = "\t" -> "%09"
           [] c = "\n" -> "%0A"
           [] OTHER -> "%3F"

RECURSIVE encodeURIComponent(_)
encodeURIComponent(s) ==
    IF Len(s) = 0 THEN ""
    ELSE uriChar(CharAt(s, 1)) \o encodeURIComponent(SubSeq(s, 2, Len(s)))

autocompleteUrl(name) ==
    "https://www.hemnet.se/locations/show?q=" \o encodeURIComponent(name) \o "&h=1"

\* variant: the name is lower-cased but not trimmed
normalized_noTrim(name) == toLowerCase(name)

\* const normalized = location.toLowerCase().trim()
normalized(name) == trim(toLowerCase(name))

\* the LocationResult of a static-table hit (lines 1107-1111)
staticResult(name) ==
    [id |-> Lookup(COMMON_LOCATIONS, normalized(name)), name |-> name, type |-> "kommun"]

\* variant: the type of the first hit is trimmed and lower-cased
lookupResult_tidyType(name, res) ==
    IF res.err # "" THEN <<>>
    ELSE IF res.value[1].kind = "array" /\ Len(res.value[1].items) > 0
    THEN <<[id   |-> String(res.value[1].items[1].id),
            name |-> IF res.value[1].items[1].name # ""
                     THEN res.value[1].items[1].name ELSE name,
            type |-> IF res.value[1].items[1].location_type \notin {<<>>, <<"">>}
                     THEN trim(toLowerCase(res.value[1].items[1].location_type[1]))
                     ELSE "unknown"]>>
    ELSE <<>>

\* what findLocationId returns once fetchJson has settled (lines 1115-1131)
lookupResult(name, res) ==
    IF res.err # "" THEN <<>>
    ELSE IF res.value[1].kind = "array" /\ Len(res.value[1].items) > 0
    THEN <<[id   |-> String(res.value[1].items[1].id),
            name |-> IF res.value[1].items[1].name # ""
                     THEN res.value[1].items[1].name ELSE name,
            type |-> IF res.value[1].items[1].location_type \notin {<<>>, <<"">>}
                     THEN res.value[1].items[1].location_type[1] ELSE "unknown"]>>
    ELSE <<>>

---------------------------------------------------------------------------
(* Document queries (cheerio) *)

\* $(el).text(): the text of all text nodes below el, in document order
RECURSIVE textOf(_)
RECURSIVE textOfAll(_, _)
textOf(n) == IF isText(n) THEN n.text ELSE textOfAll(n.kids, 1)

textOfAll(nodes, i) ==
    IF i > Len(nodes) THEN ""
    ELSE textOf(nodes[i]) \o textOfAll(nodes, i + 1)

\* the element sibling that follows nodes[i]: <<>> when there is none
nextElement(nodes, i) ==
    IF \E j \in (i + 1)..Len(nodes) : ~ isText(nodes[j])
    THEN <<nodes[Min({j \in (i + 1)..Len(nodes) : ~ isText(nodes[j])})]>>
    ELSE <<>>

\* the elements of a forest in document order, each with its next sibling
RECURSIVE Elements(_, _)
Elements(nodes, i) ==
    IF i > Len(nodes) THEN <<>>
    ELSE (IF isText(nodes[i]) THEN <<>>
          ELSE <<[el |-> nodes[i], next |-> nextElement(nodes, i)]>>
               \o Elements(nodes[i].kids, 1))
         \o Elements(nodes, i + 1)

\* $(tag) on a selection of elements
byTag(els, tag) == SelectSeq(els, LAMBDA e : e.el.tag = tag)

\* $el.find(tag): the descendants of el with that tag
find(n, tag) == byTag(Elements(n.kids, 1), tag)

\* selection.first().text(): "" for the empty selection
firstText(els) == IF Len(els) = 0 THEN "" ELSE textOf(els[1].el)

\* $(el).next(tag).text(): the next sibling element, if it has that tag
nextText(e, tag) ==
    IF e.next # <<>> /\ e.next[1].tag = tag THEN textOf(e.next[1]) ELSE ""

\* $(node).contents().filter(text).text(): the text-node children of a node
\* joined in order
RECURSIVE contentsText(_, _)
contentsText(kids, i) ==
    IF i > Len(kids) THEN ""
    ELSE (IF isText(kids[i]) THEN kids[i].text ELSE "") \o contentsText(kids, i + 1)

\* selection.slice(from, to), zero-based and end-exclusive
slice_all(s, from, to) == s

slice(s, from, to) ==
    IF to <= Len(s) THEN SubSeq(s, from + 1, to) ELSE SubSeq(s, from + 1, Len(s))

\* String.prototype.substring(from, to)
substring(s, from, to) ==
    IF to <= Len(s) THEN SubSeq(s, from + 1, to) ELSE SubSeq(s, from + 1, Len(s))

---------------------------------------------------------------------------
(* Regular expressions of the extractors *)

Digits == {"0", "1", "2", "3", "4", "5", "6", "7", "8", "9"}
DigitsOrSpace == Digits \cup WhiteSpace

literalAt(text, i, lit) ==
    i >= 1 /\ i + Len(lit) - 1 <= Len(text) /\ SubSeq(text, i, i + Len(lit) - 1) = lit

\* last index of the longest run of characters of class C that starts at i
\* (i - 1 when text[i] is not in C)
runEnd(text, i, C) ==
    Min({j \in i..(Len(text) + 1) : j > Len(text) \/ CharAt(text, j) \notin C}) - 1

\* /(\d[\d\s]*)\s*kr\/mån/ : a match that starts at digit i runs over the whole
\* run of digits and white space and needs "kr/mån" right behind that run
feeAt(text, i) ==
    /\ CharAt(text, i) \in Digits
    /\ literalAt(text, runEnd(text, i + 1, DigitsOrSpace) + 1, "kr/mån")

\* nodeText.match(...): <<>> for null, <<m[0]>> for the leftmost match
feeMatch(text) ==
    IF \E i \in 1..Len(text) : feeAt(text, i)
    THEN LET i0 == Min({i \in 1..Len(text) : feeAt(text, i)})
         IN  <<SubSeq(text, i0, runEnd(text, i0 + 1, DigitsOrSpace) + Len("kr/mån"))>>
    ELSE <<>>

\* /(\d[\d\s]*\d)\s*kr(?!\/)/ : as above with a second digit in the run, "kr"
\* behind the run and no "/" behind "kr"
priceAt(text, i) ==
    /\ CharAt(text, i) \in Digits
    /\ \E d \in (i + 1)..runEnd(text, i + 1, DigitsOrSpace) : CharAt(text, d) \in Digits
    /\ literalAt(text, runEnd(text, i + 1, DigitsOrSpace) + 1, "kr")
    /\ ~ literalAt(text, runEnd(text, i + 1, DigitsOrSpace) + 3, "/")

priceMatch(text) ==
    IF \E i \in 1..Len(text) : priceAt(text, i)
    THEN LET i0 == Min({i \in 1..Len(text) : priceAt(text, i)})
         IN  <<SubSeq(text, i0, runEnd(text, i0 + 1, DigitsOrSpace) + 2)>>
    ELSE <<>>

\* /(\d+)\s*<unit>/ : the digits, then the white space, then the unit
unitEnd(text, i) == runEnd(text, runEnd(text, i, Digits) + 1, WhiteSpace)

unitAt(text, i, unit) ==
    CharAt(text, i) \in Digits /\ literalAt(text, unitEnd(text, i) + 1, unit)

unitMatch(text, unit) ==
    IF \E i \in 1..Len(text) : unitAt(text, i, unit)
    THEN LET i0 == Min({i \in 1..Len(text) : unitAt(text, i, unit)})
         IN  <<SubSeq(text, i0, unitEnd(text, i0) + Len(unit))>>
    ELSE <<>>

\* m ? m[0] : ""
matched(m) == IF m = <<>> THEN "" ELSE m[1]

---------------------------------------------------------------------------
(* Summary extraction (searchHemnet) *)

\* the number of listings one search returns at most: .slice(0, 25)
ResultCap == 25

SiteOrigin == "https://www.hemnet.se"

\* href.startsWith("http") ? href : `https://www.hemnet.se${href}`
absoluteUrl(href) == IF startsWith(href, "http") THEN href ELSE SiteOrigin \o href

\* the fee of a listing card: the first descendant element, in document order,
\* whose own text nodes, joined, match the fee pattern
RECURSIVE feeScan(_, _)
feeScan(els, j) ==
    IF j > Len(els) THEN <<>>
    ELSE IF feeMatch(contentsText(els[j].el.kids, 1)) # <<>>
         THEN feeMatch(contentsText(els[j].el.kids, 1))
    ELSE feeScan(els, j + 1)

\* srcset.split(",")[0]?.trim().split(/\s+/)[0] || "": the text before the first
\* comma, trimmed, up to its first white space
srcsetFirst(srcset) ==
    LET head == trim(IF \E i \in 1..Len(srcset) : CharAt(srcset, i) = ","
                     THEN SubSeq(srcset, 1,
                                 Min({i \in 1..Len(srcset) : CharAt(srcset, i) = ","}) - 1)
                     ELSE srcset)
    IN  SubSeq(head, 1,
               runEnd(head, 1, {CharAt(head, i) : i \in 1..Len(head)} \ WhiteSpace))

isImageUrl(c) == startsWith(c, "http") /\ includes(c, "hemnet")

\* the first of src, first srcset URL, data-src that qualifies ("" when none)
imageOf(img) ==
    IF isImageUrl(attr(img, "src")) THEN attr(img, "src")
    ELSE IF isImageUrl(srcsetFirst(attr(img, "srcset")))
         THEN srcsetFirst(attr(img, "srcset"))
    ELSE IF isImageUrl(attr(img, "data-src")) THEN attr(img, "data-src")
    ELSE ""

RECURSIVE imageScan(_, _)
imageScan(imgs, j) ==
    IF j > Len(imgs) THEN ""
    ELSE IF imageOf(imgs[j].el) # "" THEN imageOf(imgs[j].el)
    ELSE imageScan(imgs, j + 1)

\* $('a[href*="/bostad/"]')
listingAnchors(doc) ==
    SelectSeq(Elements(doc, 1),
              LAMBDA e : e.el.tag = "a" /\ includes(attr(e.el, "href"), "/bostad/"))

\* the body of the .each callback pushes a record unless it returns early
keepsListing(e) ==
    /\ attr(e.el, "href") # ""
    /\ includes(attr(e.el, "href"), "/bostad/")
    /\ (trim(firstText(find(e.el, "h2"))) # "" \/ attr(e.el, "href") # "")

listingOf(a, locationName) ==
    [title       |-> trim(firstText(find(a, "h2"))),
     url         |-> absoluteUrl(attr(a, "href")),
     price       |-> trim(matched(priceMatch(textOf(a)))),
     rooms       |-> matched(unitMatch(textOf(a), "rum")),
     area        |-> matched(unitMatch(textOf(a), "m²")),
     monthlyFee  |-> matched(feeScan(Elements(a.kids, 1), 1)),
     description |-> substring(trim(firstText(find(a, "p"))), 0, 200),
     location    |-> locationName,
     imageUrl    |-> imageScan(find(a, "img"), 1)]

keptListings(els, locationName) ==
    [i \in 1..Len(els) |-> listingOf(els[i].el, locationName)]

\* lines 1281-1349: the listings of a search page
extractListings(doc, locationName) ==
    keptListings(SelectSeq(slice(listingAnchors(doc), 0, ResultCap), keepsListing),
                 locationName)

---------------------------------------------------------------------------
(* Sold-summary extraction (searchSoldHemnet) *)

SoldShapes == <<"/salda/lagenhet-", "/salda/villa-", "/salda/radhus-",
                "/salda/fritidshus-", "/salda/tomt-">>

\* $(soldSelectors): the anchors whose href contains one of the sold shapes
soldAnchors(doc) ==
    SelectSeq(Elements(doc, 1),
              LAMBDA e : /\ e.el.tag = "a"
                         /\ \E k \in 1..Len(SoldShapes) :
                               includes(attr(e.el, "href"), SoldShapes[k]))

keepsSold(e) ==
    /\ attr(e.el, "href") # ""
    /\ includes(attr(e.el, "href"), "/salda/")
    /\ (trim(firstText(find(e.el, "h2"))) # "" \/ attr(e.el, "href") # "")

\* lines 1392-1397
soldPropertyType(href) ==
    IF includes(href, "/villa-") THEN "villa"
    ELSE IF includes(href, "/lagenhet-") THEN "lägenhet"
    ELSE IF includes(href, "/radhus-") THEN "radhus"
    ELSE IF includes(href, "/fritidshus-") THEN "fritidshus"
    ELSE IF includes(href, "/tomt-") THEN "tomt"
    ELSE ""

\* a sold record; its text-pattern fields (soldPrice, priceChangePercent,
\* saleDate, rooms, area, pricePerSqm, monthlyFee, agency) are functions of the
\* anchor's own content and are not carried
soldListingOf(a, locationName) ==
    [address      |-> trim(firstText(find(a, "h2"))),
     location     |-> locationName,
     propertyType |-> soldPropertyType(attr(a, "href")),
     url          |-> absoluteUrl(attr(a, "href"))]

keptSold(els, locationName) ==
    [i \in 1..Len(els) |-> soldListingOf(els[i].el, locationName)]

\* lines 1377-1479: the listings of a sold-search page
extractSoldListings(doc, locationName) ==
    keptSold(SelectSeq(slice(soldAnchors(doc), 0, ResultCap), keepsSold), locationName)

---------------------------------------------------------------------------
(* Detail extraction (getListingDetails) *)

\* variant: the loop does not stop, so the last dt that includes the term decides
RECURSIVE dtScan_last(_, _, _)
dtScan_last(dts, i, term) ==
    IF i > Len(dts) THEN ""
    ELSE IF /\ includes(textOf(dts[i].el), term)
            /\ \A j \in (i + 1)..Len(dts) : ~ includes(textOf(dts[j].el), term)
         THEN trim(nextText(dts[i], "dd"))
    ELSE dtScan_last(dts, i + 1, term)

\* the $("dt").each loop of getDefinitionByTerm: the first dt whose text
\* includes the term decides
RECURSIVE dtScan(_, _, _)
dtScan(dts, i, term) ==
    IF i > Len(dts) THEN ""
    ELSE IF includes(textOf(dts[i].el), term) THEN trim(nextText(dts[i], "dd"))
    ELSE dtScan(dts, i + 1, term)

getDefinitionByTerm(doc, term) == dtScan(byTag(Elements(doc, 1), "dt"), 1, term)

\* lines 1540-1552: the field of the detail record each term fills
TermOf ==
    [propertyType |-> "Bostadstyp", tenureType |-> "Upplåtelseform",
     rooms |-> "Antal rum", area |-> "Boarea", balcony |-> "Balkong",
     patio |-> "Uteplats", floor |-> "Våning", buildYear |-> "Byggår",
     energyClass |-> "Energiklass", monthlyFee |-> "Avgift",
     runningCosts |-> "Driftkostnad", pricePerSqm |-> "Pris/m²",
     visitCount |-> "Antal besök"]

TermFields == DOMAIN TermOf

\* the number of image URLs a detail record holds at most: imageUrls.length < 10
ImageCap == 10

\* variant: a URL is pushed although the list holds it already
RECURSIVE pushImages_dup(_, _, _, _)
pushImages_dup(els, name, i, acc) ==
    IF i > Len(els) THEN acc
    ELSE pushImages_dup(els, name, i + 1,
                        IF /\ attr(els[i].el, name) # ""
                           /\ Len(acc) < ImageCap
                        THEN Append(acc, attr(els[i].el, name))
                        ELSE acc)

\* the .each callback of an image pass over the selected elements: the value
\* of the attribute is pushed unless it is empty, in the list already, or the
\* list is full
RECURSIVE pushImages(_, _, _, _)
pushImages(els, name, i, acc) ==
    IF i > Len(els) THEN acc
    ELSE pushImages(els, name, i + 1,
                    IF /\ attr(els[i].el, name) # ""
                       /\ \A j \in 1..Len(acc) : acc[j] # attr(els[i].el, name)
                       /\ Len(acc) < ImageCap
                    THEN Append(acc, attr(els[i].el, name))
                    ELSE acc)

\* lines 1613-1628: the src pass over the images of the two image hosts and,
\* if it pushed nothing, the data-src pass
imageUrlsOf(doc) ==
    LET primary ==
            pushImages(SelectSeq(byTag(Elements(doc, 1), "img"),
                                 LAMBDA e : \/ includes(attr(e.el, "src"), "bilder.hemnet.se")
                                            \/ includes(attr(e.el, "src"), "images.hemnet.se")),
                       "src", 1, <<>>)
    IN  IF Len(primary) = 0
        THEN pushImages(SelectSeq(byTag(Elements(doc, 1), "img"),
                                  LAMBDA e : includes(attr(e.el, "data-src"), "hemnet")),
                        "data-src", 1, <<>>)
        ELSE primary

\* the detail record: its title, the fields found by term lookup and the
\* image URLs (the remaining fields are not carried)
detailsOf(doc) ==
    [f \in TermFields \cup {"title"} |->
        IF f = "title" THEN trim(firstText(byTag(Elements(doc, 1), "h1")))
        ELSE getDefinitionByTerm(doc, TermOf[f])]
    @@ ("imageUrls" :> imageUrlsOf(doc))

\* variant: only the "page not found" text marks a removed listing
isRemoved_notFoundOnly(html) == includes(html, "Sidan hittades inte")

isRemoved(html) ==
    \/ includes(html, "Sidan hittades inte")
    \/ includes(html, "Den här bostaden finns inte längre")

\* variant: any page of the site passes for a listing
isListingUrl_anyPage(u) == includes(u, "hemnet.se/")

isListingUrl(u) == includes(u, "hemnet.se/bostad/")

---------------------------------------------------------------------------
(* Pages the renderer may return *)

Tag(tag, text) == Element(tag, <<>>, <<TextNode(text)>>)

\* the i-th listing card of a page: an anchor with a heading, with heading,
\* facts and image, or with bare text
Card(i, kind) ==
    Element("a",
        <<<<"href", IF kind = "sold" THEN SoldShapes[(i % 5) + 1] \o String(i)
                    ELSE IF i = 2 THEN SiteOrigin \o "/bostad/lagenhet-2"
                    ELSE "/bostad/lagenhet-" \o String(i)>>>>,
        IF i % 4 = 1
        THEN <<Tag("h2", " Storgatan " \o String(i) \o " "), Tag("p", "Ljus bostad"),
               Tag("span", "3 rum"), Tag("span", "72 m²"), Tag("span", "2 500 000 kr"),
               Tag("span", "3 200 kr/mån"),
               Element("img",
                       <<<<"src", "https://bilder.hemnet.se/" \o String(i) \o ".jpg">>>>,
                       <<>>)>>
        ELSE IF i % 4 = 3 THEN <<TextNode("Bostad " \o String(i))>>
        ELSE <<Tag("h2", "Gata " \o String(i))>>)

\* a result page with n listing cards and, when x > 0, an anchor that is no
\* listing link as the x-th anchor
ListingPage(n, kind, x) ==
    <<Tag("h1", "Bostäder"),
      Element("ul", <<>>,
        [i \in 1..(IF x = 0 THEN n ELSE n + 1) |->
            Element("li", <<>>,
                <<IF x = 0 \/ i < x THEN Card(i, kind)
                  ELSE IF i = x
                  THEN Element("a", <<<<"href", IF kind = "sold"
                                                THEN "/salda/bostader?page=2"
                                                ELSE "/kommun/lund">>>>,
                               <<TextNode("Mer")>>)
                  ELSE Card(i - 1, kind)>>)])>>

\* largest number of listing cards on a page
MaxAnchors == 27

ListingPages(kind) ==
    {ListingPage(n, kind, 0) : n \in 0..MaxAnchors} \cup
    {ListingPage(n, kind, x) : n \in (ResultCap - 1)..MaxAnchors, x \in {1, ResultCap}}

FeeCard(kids) == <<Element("a", <<<<"href", "/bostad/villa-9">>>>, kids)>>

\* cards that differ in where the fee digits and the "kr/mån" marker stand
FeePages ==
    {FeeCard(<<Tag("span", "1 200 kr/mån")>>),
     FeeCard(<<Tag("span", "1 200"), Tag("span", "kr/mån")>>),
     FeeCard(<<Element("div", <<>>,
                 <<TextNode("1 200"), Element("br", <<>>, <<>>), TextNode("kr/mån")>>)>>),
     FeeCard(<<TextNode("1 200 kr/mån")>>),
     FeeCard(<<Element("div", <<>>,
                 <<TextNode("Avgift "), Tag("b", "1 200"), TextNode(" kr/mån")>>)>>),
     FeeCard(<<Element("div", <<>>,
                 <<TextNode("72"), Tag("span", "m²"), TextNode("3 200 kr/mån")>>)>>)}

Marker == "Verify you are human"

\* pages with the challenge marker in a text node, among other content and in
\* an attribute value
ChallengePages ==
    {<<TextNode(Marker)>>,
     <<Tag("h1", "Bostäder"), Tag("p", "Please " \o Marker \o " first"),
       Card(1, "search")>>,
     <<Element("img", <<<<"alt", Marker>>>>, <<>>), Card(1, "search")>>}

\* longest definition list of a detail page
MaxItems == 3

\* a detail page: a heading and a definition list of labels, values and
\* other elements
DetailPages ==
    {<<Tag("h1", " Storgatan 1 "), Element("dl", <<>>, items)>> :
        items \in SeqsUpTo({Tag("dt", "Bostadstyp"), Tag("dt", "Avgift"),
                            Tag("dd", " Lägenhet\n"), Tag("dd", "3 200 kr/mån"),
                            Tag("p", "Visning")}, MaxItems)}

\* largest number of images on a detail page
MaxImages == 12

\* a detail page with a gallery of n images.  "plain": every image of an
\* image host, all different; "repeats": the same three images over and over;
\* "lazy": placeholders whose data-src holds the image; "mixed": loaded images
\* of the two hosts among lazy ones and images of other sites
Gallery(n, kind) ==
    <<Tag("h1", "Galleri"),
      Element("div", <<>>,
        [i \in 1..n |->
            CASE kind = "plain" ->
                    Element("img", <<<<"src", "https://bilder.hemnet.se/images/"
                                              \o String(i) \o ".jpg">>>>, <<>>)
              [] kind = "repeats" ->
                    Element("img", <<<<"src", "https://bilder.hemnet.se/images/"
                                              \o String(i % 3) \o ".jpg">>>>, <<>>)
              [] kind = "lazy" ->
                    Element("img", <<<<"src", "data:image/gif;base64,R0lGOD">>,
                                     <<"data-src", "https://bilder.hemnet.se/lazy/"
                                                   \o String(i % 11) \o ".jpg">>>>, <<>>)
              [] OTHER ->
                    IF i % 4 = 1
                    THEN Element("img", <<<<"src", "https://images.hemnet.se/"
                                                   \o String(i) \o ".jpg">>,
                                          <<"data-src", "https://images.hemnet.se/full/"
                                                        \o String(i) \o ".jpg">>>>, <<>>)
                    ELSE IF i % 4 = 2
                    THEN Element("img", <<<<"src", "data:image/gif;base64,R0lGOD">>,
                                          <<"data-src", "https://bilder.hemnet.se/lazy/"
                                                        \o String(i) \o ".jpg">>>>, <<>>)
                    ELSE IF i % 4 = 3
                    THEN Element("img", <<<<"src", "https://maklare.example/logo.png">>>>,
                                 <<>>)
                    ELSE Element("img", <<<<"src", "https://bilder.hemnet.se/images/"
                                                   \o String(i) \o ".jpg">>>>, <<>>)])>>

\* the documents the renderer may return for the page an operation asks for:
\* its own kind of page, pages of removed listings, challenge pages, and pages
\* that hold the marker in another letter case or broken up by tags
PagesFor(o) ==
    CASE o = "searchHemnet" ->
            ListingPages("search") \cup FeePages \cup ChallengePages \cup
            {<<Tag("h1", "Sidan hittades inte"), Card(1, "search")>>,
             <<Element("a", <<<<"href", "/bostad/villa-31">>>>,
                  <<Element("img",
                       <<<<"src", "data:image/gif;base64,R0lGOD">>,
                         <<"srcset", " https://bilder.hemnet.se/a.jpg 1x,"
                                     \o " https://bilder.hemnet.se/b.jpg 2x">>,
                         <<"data-src", "https://bilder.hemnet.se/c.jpg">>>>, <<>>)>>),
               Element("a", <<<<"href", "/bostad/villa-32">>>>,
                  <<Element("img", <<<<"src", "/static/pixel.png">>>>, <<>>),
                    Element("img",
                       <<<<"src", "/static/pixel.png">>,
                         <<"data-src", "https://bilder.hemnet.se/c.jpg">>>>, <<>>)>>),
               Element("a", <<<<"href", "/bostad/villa-33">>>>,
                  <<Element("img", <<<<"src", "/static/hemnet.png">>>>, <<>>)>>),
               Element("a", <<<<"href", "/bostad/villa-34">>>>,
                  <<Element("img", <<<<"src", "https://maklare.example/hemnet-partner.png">>>>,
                            <<>>),
                    Element("img", <<<<"src", "https://bilder.hemnet.se/34.jpg">>>>,
                            <<>>)>>)>>}
      [] o = "searchSoldHemnet" ->
            ListingPages("sold") \cup ChallengePages \cup
            {<<Tag("p", "Den här bostaden finns inte längre"), Card(1, "sold")>>,
             <<Card(1, "sold"),
               Element("a", <<<<"href", "/salda/lagenhet-2rum-lund/villa-vagen-3">>>>,
                       <<Tag("h2", "Villavägen 3")>>)>>}
      [] o = "getListingDetails" ->
            DetailPages \cup ChallengePages \cup
            {Gallery(n, kind) : n \in 0..MaxImages,
                               kind \in {"plain", "repeats", "lazy", "mixed"}} \cup
            {<<Tag("h1", "Sidan hittades inte")>>,
             <<Tag("p", "Den här bostaden finns inte längre"), Tag("dt", "Avgift"),
               Tag("dd", "1 kr")>>,
             <<Tag("p", Marker), Tag("p", "Sidan hittades inte")>>,
             <<Tag("h1", "Sidan hittades inte"), Tag("p", Marker)>>,
             <<Tag("p", "Den här bostaden finns inte längre"),
               Element("div", <<>>, <<Tag("span", Marker)>>)>>}
      [] OTHER ->
            ChallengePages \cup FeePages \cup
            {ListingPage(n, "search", 0) : n \in 0..2} \cup
            {<<Tag("p", toLowerCase(Marker))>>,
             <<Element("p", <<>>,
                       <<TextNode("Verify "), Tag("b", "you"), TextNode(" are human")>>)>>,
             <<Tag("h1", "Sidan hittades inte")>>}

\* the ways the renderer may fail
FailedResponses ==
    {TransportError,
     RendererResponse(FALSE, FALSE, "", <<>>),
     RendererResponse(TRUE, FALSE, "", <<>>),
     RendererResponse(TRUE, TRUE, "navigation timeout", <<>>),
     RendererResponse(TRUE, TRUE, "navigation timeout", <<TextNode("partial")>>),
     RendererResponse(TRUE, TRUE, "", <<>>),
     RendererResponse(TRUE, TRUE, "", <<TextNode("")>>)}

PageResponses(o) ==
    FailedResponses \cup {RendererResponse(TRUE, TRUE, "", d) : d \in PagesFor(o)}

\* the bodies the autocomplete endpoint may answer with
LookupBodies == DOMAIN JsonTexts \cup {"<!DOCTYPE html>"}

\* how a browser shows a JSON body
PrePage(tag, body) ==
    <<Element("html", <<>>,
        <<Element("body", <<>>,
            <<Element(tag, <<<<"style", "word-wrap: break-word">>>>,
                      <<TextNode(" " \o body \o "\n")>>)>>)>>)>>

JsonResponses ==
    FailedResponses
    \cup {RendererResponse(TRUE, TRUE, "", PrePage("pre", b)) : b \in LookupBodies}
    \cup {RendererResponse(TRUE, TRUE, "", PrePage("PRE", "[]")),
          RendererResponse(TRUE, TRUE, "", PrePage("div", "[]"))}

\* what the direct fetch of the autocomplete URL may give: it fails, or there
\* is a response with a status and a body
DirectResponses ==
    {[fails |-> TRUE, ok |-> FALSE, body |-> ""],
     [fails |-> FALSE, ok |-> FALSE, body |-> "Forbidden"]}
    \cup {[fails |-> FALSE, ok |-> TRUE, body |-> b] : b \in LookupBodies}

---------------------------------------------------------------------------
(* Errors *)

ConfigError == "BROWSER_RENDER_URL not configured. Set it as an environment variable."
BlockedError ==
    "Hemnet is showing a bot verification challenge. Please try again later."
RemovedError == "This listing has been removed from Hemnet."
InvalidUrlError == "Invalid Hemnet listing URL. URL must contain 'hemnet.se/bostad/'"
couldNotFind(name) == "Could not find location \"" \o name \o "\"."

---------------------------------------------------------------------------
(* fetchPage, fetchJson and the operations built on them *)

\* variant: only a page that starts with the marker is taken for a challenge
isChallenge_prefix(html) == startsWith(html, Marker)

\* html.includes("Verify you are human")
isChallenge(html) == includes(html, "Verify you are human")

\* variant: fetchPage returns the markup without a look at it
fetchPageResult_unchecked(res) == res

\* fetchPage once fetchViaRenderer has settled (lines 1058-1066)
fetchPageResult(res) ==
    IF res.err # "" THEN res
    ELSE IF isChallenge(Markup(res.value[1])) THEN Rejected(BlockedError)
    ELSE res

\* variant: fetchJson asks the renderer whatever the direct attempt gave
fallsBack_always(resp) == TRUE

\* fetchJson leaves the direct attempt for the renderer (lines 1071-1084)
fallsBack(resp) == resp.fails \/ ~ resp.ok

\* return response.json()
directResult(resp) == JsonParse(resp.body)

\* variant: a search without a location reports an empty location name
locationNameOf_blank(name, r) == IF name = "" \/ r = <<>> THEN "" ELSE r[1].name

\* let locationName = "Sverige"; ... locationName = locationResult.name
locationNameOf(name, r) == IF name = "" \/ r = <<>> THEN "Sverige" ELSE r[1].name

\* { locationId, ...options } for options that carry no locationId
withLocationId(opts, r) ==
    IF r = <<>> THEN opts ELSE [opts EXCEPT !["locationId"] = <<r[1].id>>]

searchUrlOf(o, opts, r) ==
    IF o = "searchHemnet" THEN buildSearchUrl(withLocationId(opts, r))
    ELSE buildSoldSearchUrl(withLocationId(opts, r))

\* what an operation makes of the page fetchPage gave it
completion(o, name, res) ==
    IF res.err # "" THEN res
    ELSE CASE o = "searchHemnet" ->
                Fulfilled([listings |-> extractListings(res.value[1], name),
                           locationName |-> name])
           [] o = "searchSoldHemnet" ->
                Fulfilled([listings |-> extractSoldListings(res.value[1], name),
                           locationName |-> name])
           [] o = "getListingDetails" ->
                IF isRemoved(Markup(res.value[1])) THEN Rejected(RemovedError)
                ELSE Fulfilled(detailsOf(res.value[1]))
           [] OTHER -> res

\* fetchPage(u) up to the request to the renderer (lines 1023-1040)
PageStart(u) ==
    /\ url' = u
    /\ rendered' = <<>>
    /\ IF browserRenderUrl = ""
       THEN /\ net' = net
            /\ pc' = "done"
            /\ outcome' = <<Rejected(ConfigError)>>
       ELSE /\ net' = Append(net, RendererRequest(u))
            /\ pc' = "pageRender"
            /\ outcome' = <<>>

\* variant: a search goes on to the page when the location was not found
Located_pageAnyway(o, name, opts, r) ==
    /\ locResult' = r
    /\ IF o = "findLocationId"
       THEN /\ pc' = "done"
            /\ outcome' = <<Fulfilled(r)>>
            /\ UNCHANGED <<net, url, rendered>>
       ELSE PageStart(searchUrlOf(o, opts, r))

\* findLocationId has returned r to operation o
Located(o, name, opts, r) ==
    /\ locResult' = r
    /\ IF o = "findLocationId"
       THEN /\ pc' = "done"
            /\ outcome' = <<Fulfilled(r)>>
            /\ UNCHANGED <<net, url, rendered>>
       ELSE IF r = <<>>
       THEN /\ pc' = "done"
            /\ outcome' = <<Rejected(couldNotFind(name))>>
            /\ UNCHANGED <<net, url, rendered>>
       ELSE PageStart(searchUrlOf(o, opts, r))

\* findLocationId(name) up to its first await (lines 1104-1117)
LocStart(o, name, opts) ==
    IF Lookup(COMMON_LOCATIONS, normalized(name)) # ""
    THEN Located(o, name, opts, <<staticResult(name)>>)
    ELSE /\ net' = Append(net, DirectRequest(autocompleteUrl(name)))
         /\ pc' = "locDirect"
         /\ UNCHANGED <<locResult, url, rendered, outcome>>

\* longest run of spaces put before or behind a location name
MaxPad == 1

\* the names handed to findLocationId: spellings of table keys and of other
\* names, with spaces before and behind
LocationNames ==
    {SubSeq("    ", 1, a) \o b \o SubSeq("    ", 1, c) :
        a \in 0..MaxPad,
        b \in {"lund", "Lund", "LUND", "täby", "Upplands Väsby", "upplands-väsby",
               "upplands  väsby", "atlantis", "constructor"},
        c \in 0..MaxPad}
    \cup {"\tLund\n"}

CallFindLocationId ==
    /\ pc = "idle"
    /\ op' = "findLocationId"
    /\ \E name \in LocationNames :
          /\ location' = name
          /\ LocStart("findLocationId", name, options)
    /\ UNCHANGED <<cfgVars, options, params, url2, cfg1, jsonVars, srvVars>>

\* the direct fetch of the autocomplete URL settles
DirectResponds ==
    /\ pc = "locDirect"
    /\ \E resp \in DirectResponses :
          /\ direct' = <<resp>>
          /\ IF ~ fallsBack(resp)
             THEN /\ json' = <<directResult(resp)>>
                  /\ Located(op, location, options,
                             lookupResult(location, directResult(resp)))
             ELSE IF browserRenderUrl = ""
             THEN /\ json' = <<Rejected(ConfigError)>>
                  /\ Located(op, location, options, <<>>)
             ELSE /\ json' = <<>>
                  /\ net' = Append(net, RendererRequest(autocompleteUrl(location)))
                  /\ pc' = "locRender"
                  /\ UNCHANGED <<locResult, url, rendered, outcome>>
    /\ UNCHANGED <<cfgVars, op, location, options, params, url2, cfg1, srvVars>>

\* the renderer answers the request for the autocomplete URL
RendererRespondsJson ==
    /\ pc = "locRender"
    /\ \E resp \in JsonResponses :
          /\ json' = <<jsonFromRendered(rendererResult(resp))>>
          /\ Located(op, location, options,
                     lookupResult(location, jsonFromRendered(rendererResult(resp))))
    /\ UNCHANGED <<cfgVars, op, location, options, params, url2, cfg1, direct, srvVars>>

\* the inputs of a search: a location ("" for none) and filter options
SearchInputs ==
    {[location |-> "", options |-> EmptyOptions],
     [location |-> "Lund", options |-> [EmptyOptions EXCEPT !["minRooms"] = <<2>>]],
     [location |-> "atlantis", options |-> EmptyOptions]}

CallSearch(o) ==
    /\ pc = "idle"
    /\ op' = o
    /\ \E inp \in SearchInputs :
          /\ location' = inp.location
          /\ options' = inp.options
          /\ IF inp.location = ""
             THEN /\ locResult' = locResult
                  /\ PageStart(searchUrlOf(o, inp.options, <<>>))
             ELSE LocStart(o, inp.location, inp.options)
    /\ UNCHANGED <<cfgVars, params, url2, cfg1, jsonVars, srvVars>>

searchHemnet == CallSearch("searchHemnet")

searchSoldHemnet == CallSearch("searchSoldHemnet")

PageUrls == {"https://www.hemnet.se/bostader", "https://www.hemnet.se/bostad/villa-9",
             "https://www.hemnet.se/salda/bostader"}

fetchPage ==
    /\ pc = "idle"
    /\ op' = "fetchPage"
    /\ \E u \in PageUrls : PageStart(u)
    /\ UNCHANGED <<cfgVars, options, params, url2, cfg1, location, locResult,
                   jsonVars, srvVars>>

DetailUrls == {"https://www.hemnet.se/bostad/lagenhet-2rum-1",
               "https://www.hemnet.se/salda/lagenhet-2rum-1",
               "https://www.HEMNET.se/bostad/villa-1",
               "https://www.hemnet.se/bostad",
               "https://maklare.example/visa?objekt=hemnet.se/bostad/villa-1",
               ""}

getListingDetails ==
    /\ pc = "idle"
    /\ op' = "getListingDetails"
    /\ \E u \in DetailUrls :
          IF ~ isListingUrl(u)
          THEN /\ url' = u
               /\ pc' = "done"
               /\ outcome' = <<Rejected(InvalidUrlError)>>
               /\ UNCHANGED <<net, rendered>>
          ELSE PageStart(u)
    /\ UNCHANGED <<cfgVars, options, params, url2, cfg1, location, locResult,
                   jsonVars, srvVars>>

\* variant: a failed request to the renderer is sent once more
RendererRespondsPage_retries ==
    /\ pc = "pageRender"
    /\ \E resp \in PageResponses(op) :
          IF rendererResult(resp).err # "" /\ Len(net) < 4
          THEN /\ net' = Append(net, RendererRequest(url))
               /\ UNCHANGED <<pc, rendered, outcome>>
          ELSE /\ rendered' = rendererResult(resp).value
               /\ outcome' = <<completion(op, locationNameOf(location, locResult),
                                          fetchPageResult(rendererResult(resp)))>>
               /\ pc' = "done"
               /\ net' = net
    /\ UNCHANGED <<cfgVars, op, location, options, params, url, url2, cfg1,
                   locResult, jsonVars, srvVars>>

\* the renderer answers the request for the page
RendererRespondsPage ==
    /\ pc = "pageRender"
    /\ \E resp \in PageResponses(op) :
          /\ rendered' = rendererResult(resp).value
          /\ outcome' = <<completion(op, locationNameOf(location, locResult),
                                     fetchPageResult(rendererResult(resp)))>>
    /\ pc' = "done"
    /\ UNCHANGED <<cfgVars, op, location, options, params, url, url2, cfg1,
                   net, locResult, jsonVars, srvVars>>

---------------------------------------------------------------------------
(* Entry points and tool handlers *)

\* the environments a deployment may run in: renderer settings absent or present
Environments ==
    {[url |-> "", key |-> ""]}
    \cup {[url |-> u, key |-> k] : u \in RenderUrls, k \in ApiKeys}

\* main() of the stdio / HTTP entry point: the settings are taken from
\* process.env, each only if it is set, before any request is served
main ==
    /\ entry = ""
    /\ pc = "idle"
    /\ \E e \in Environments, mode \in {"stdio", "http"} :
          /\ env' = e
          /\ entry' = mode
          /\ browserRenderUrl' = IF e.url # "" THEN e.url ELSE browserRenderUrl
          /\ browserRenderApiKey' = IF e.key # "" THEN e.key ELSE browserRenderApiKey
    /\ UNCHANGED <<pc, buildVars, ioVars, jsonVars, payload>>

\* the worker module is loaded with its bindings: it sets nothing up
worker ==
    /\ entry = ""
    /\ pc = "idle"
    /\ entry' = "worker"
    /\ \E e \in Environments : env' = e
    /\ UNCHANGED <<cfgVars, pc, buildVars, ioVars, jsonVars, payload>>

\* variant: the HTTP entry point forgets the API key when a request comes in
httpPostMcp_clearsKey ==
    /\ entry = "http"
    /\ pc = "idle"
    /\ op = ""
    /\ op' = "POST /mcp"
    /\ browserRenderApiKey' = ""
    /\ UNCHANGED <<browserRenderUrl, pc, buildVars, location, net, locResult,
                   rendered, outcome, jsonVars, srvVars>>

\* POST /mcp of the HTTP entry point: a server and a transport for the request
httpPostMcp ==
    /\ entry = "http"
    /\ pc = "idle"
    /\ op = ""
    /\ op' = "POST /mcp"
    /\ UNCHANGED <<cfgVars, pc, buildVars, location, net, locResult,
                   rendered, outcome, jsonVars, srvVars>>

\* app.post("/mcp") of the worker: the settings are taken from c.env, each
\* only if it is set, then a server and a transport are made for the request
appPostMcp ==
    /\ entry = "worker"
    /\ pc = "idle"
    /\ op = ""
    /\ op' = "POST /mcp"
    /\ browserRenderUrl' = IF env.url # "" THEN env.url ELSE browserRenderUrl
    /\ browserRenderApiKey' = IF env.key # "" THEN env.key ELSE browserRenderApiKey
    /\ UNCHANGED <<pc, buildVars, location, net, locResult,
                   rendered, outcome, jsonVars, srvVars>>

\* a tools/call message has reached the server: over stdio, or in a POST /mcp
Invoked == (entry = "stdio" /\ op = "") \/ op = "POST /mcp"

\* the handlers call their operation inside try
search_hemnet == Invoked /\ CallSearch("searchHemnet")

search_sold_hemnet == Invoked /\ CallSearch("searchSoldHemnet")

get_hemnet_listing == Invoked /\ getListingDetails

\* variant: the handler catches the errors of the fetch and lets the others go
payloadOf_fetchOnly(o, res) ==
    IF res.err \in {ConfigError, BlockedError}
    THEN <<[isError |-> TRUE, text |-> "Error: " \o res.err, result |-> <<>>]>>
    ELSE IF res.err # "" THEN <<>>
    ELSE <<[isError |-> FALSE, text |-> "", result |-> res.value]>>

\* what a handler returns once its operation has settled with res: the catch
\* block's payload, or the payload whose text is the JSON of result
payloadOf(o, res) ==
    IF res.err # ""
    THEN <<[isError |-> TRUE, text |-> "Error: " \o res.err, result |-> <<>>]>>
    ELSE IF o = "getListingDetails"
    THEN <<[isError |-> FALSE, text |-> "",
            result |-> <<res.value[1] @@ [url |-> url]>>]>>
    ELSE <<[isError |-> FALSE, text |-> "",
            result |-> <<[location |-> res.value[1].locationName,
                          count    |-> Len(res.value[1].listings),
                          listings |-> res.value[1].listings]>>]>>

\* the handler returns (or fails to: no payload)
HandlerReturns ==
    /\ entry # ""
    /\ pc = "done"
    /\ payload' = payloadOf(op, outcome[1])
    /\ pc' = "returned"
    /\ UNCHANGED <<cfgVars, buildVars, ioVars, jsonVars, entry, env>>

\* the operation's result has been handed to its caller and goes out of scope
Finish ==
    /\ \/ pc \in {"search", "sold", "search2", "sold2", "returned"}
       \/ pc = "done" /\ entry = ""
    /\ pc' = "idle"
    /\ op' = ""
    /\ location' = ""
    /\ options' = EmptyOptions
    /\ params' = <<>>
    /\ url' = ""
    /\ url2' = ""
    /\ cfg1' = ""
    /\ net' = <<>>
    /\ locResult' = <<>>
    /\ rendered' = <<>>
    /\ outcome' = <<>>
    /\ direct' = <<>>
    /\ json' = <<>>
    /\ payload' = <<>>
    /\ UNCHANGED <<cfgVars, entry, env>>

Configure ==
    \/ \E u \in RenderUrls : setBrowserRenderUrl(u)
    \/ \E k \in ApiKeys : setBrowserRenderApiKey(k)

\* the URL builders called on their own
Next ==
    \/ Configure
    \/ CallBuildSearchUrl
    \/ CallBuildSoldSearchUrl
    \/ CallAgain
    \/ Finish

Spec == Init /\ [][Next]_vars

NextLoc ==
    \/ Configure
    \/ CallFindLocationId
    \/ DirectResponds
    \/ RendererRespondsJson
    \/ Finish

SpecLoc == Init /\ [][NextLoc]_vars

NextFetch ==
    \/ Configure
    \/ fetchPage
    \/ RendererRespondsPage
    \/ Finish

SpecFetch == Init /\ [][NextFetch]_vars

NextSearch ==
    \/ Configure
    \/ searchHemnet
    \/ searchSoldHemnet
    \/ DirectResponds
    \/ RendererRespondsJson
    \/ RendererRespondsPage
    \/ Finish

SpecSearch == Init /\ [][NextSearch]_vars

NextDetail ==
    \/ Configure
    \/ getListingDetails
    \/ RendererRespondsPage
    \/ Finish

SpecDetail == Init /\ [][NextDetail]_vars

\* the server as its entry points run it
NextServe ==
    \/ main
    \/ worker
    \/ httpPostMcp
    \/ appPostMcp
    \/ search_hemnet
    \/ search_sold_hemnet
    \/ get_hemnet_listing
    \/ DirectResponds
    \/ RendererRespondsJson
    \/ RendererRespondsPage
    \/ HandlerReturns
    \/ Finish

SpecServe == Init /\ [][NextServe]_vars

---------------------------------------------------------------------------
(* Properties of the URL builders *)

\* the fixed parameter-name table of the active-listing search
ParamName ==
    [ locationId |-> "location_ids[]", minRooms |-> "rooms_min",
      maxRooms |-> "rooms_max", minPrice |-> "price_min",
      maxPrice |-> "price_max", minArea |-> "living_area_min",
      maxArea |-> "living_area_max", maxFee |-> "fee_max",
      propertyTypes |-> "item_types[]", newConstruction |-> "new_construction",
      keywords |-> "keywords", openHouse |-> "upcoming_open_house",
      hasBalcony |-> "balcony", hasElevator |-> "elevator",
      daysListed |-> "published", sortOrder |-> "order" ]

ParamNames == {ParamName[f] : f \in Fields}

\* the fields buildSoldSearchUrl reads
SoldFields == {"locationId", "minRooms", "maxRooms", "minPrice", "maxPrice",
               "minArea", "maxArea", "propertyTypes", "sortOrder"}

CountName(p, n) == Cardinality({i \in 1..Len(p) : p[i].name = n})

\* a defined field whose value JavaScript treats as true
Truthy(o, f) ==
    /\ o[f] # <<>>
    /\ CASE f \in NumberFields   -> o[f][1] # 0
         [] f \in StringFields   -> o[f][1] # ""
         [] f \in BooleanFields  -> o[f][1]
         [] f = "propertyTypes"  -> TRUE

AfterSearch == pc \in {"search", "search2"}
AfterSold   == pc \in {"sold", "sold2"}

C2_NamesInTable ==
    AfterSearch => \A i \in 1..Len(params) : params[i].name \in ParamNames

C2_Witness ==
    /\ pc = "search"
    /\ Len(params) = 3
    /\ \E i \in 1..Len(params) : params[i].name = "item_types[]"
    /\ \E i \in 1..Len(params) : params[i].name = "published"

\* C3: both builders emit a parameter only for a field the filter defines: an
\* undefined field has no parameter of its name, nothing is injected, and the
\* empty filter gives the empty query string.
C3_AbsentFieldNoParam ==
    /\ AfterSearch =>
          /\ \A f \in Fields :
                options[f] = <<>> => CountName(params, ParamName[f]) = 0
          /\ Len(params) = 0 <=> url = "https://www.hemnet.se/bostader?"
          /\ options = EmptyOptions => url = "https://www.hemnet.se/bostader?"
    /\ AfterSold =>
          /\ \A f \in Fields :
                options[f] = <<>> => CountName(params, ParamName[f]) = 0
          /\ Len(params) = 0 <=> url = "https://www.hemnet.se/salda/bostader?"
          /\ options = EmptyOptions => url = "https://www.hemnet.se/salda/bostader?"

C3_Witness ==
    /\ pc = "sold"
    /\ options = EmptyOptions
    /\ url = "https://www.hemnet.se/salda/bostader?"

\* C4: for the filter {minRooms: 2, maxPrice: 3000000} buildSearchUrl gives the
\* query string rooms_min=2&price_max=3000000 and no location_ids[] parameter.
C4_Filter == [EmptyOptions EXCEPT !["minRooms"] = <<2>>, !["maxPrice"] = <<3000000>>]

C4_ScenarioQuery ==
    (AfterSearch /\ options = C4_Filter) =>
        /\ url = "https://www.hemnet.se/bostader?rooms_min=2&price_max=3000000"
        /\ CountName(params, "location_ids[]") = 0
        /\ ~ includes(url, "location_ids")

C4_Witness == pc = "search" /\ options = C4_Filter

---------------------------------------------------------------------------
(* Properties of the location lookup *)

\* the case-insensitive, whitespace-normalized form of the name looked up
C6_Key == trim(toLowerCase(location))

\* C6: when the lower-cased, trimmed form of the name handed to findLocationId
\* is a key of the static table, the call has returned at once, its result
\* carries that key's table id, and it has issued no network request at all.
C6_StaticHitNoNetwork ==
    (op = "findLocationId" /\ C6_Key \in DOMAIN COMMON_LOCATIONS) =>
        /\ pc = "done"
        /\ net = <<>>
        /\ locResult # <<>>
        /\ locResult[1].id = COMMON_LOCATIONS[C6_Key]

C6_Witness ==
    /\ op = "findLocationId"
    /\ pc = "done"
    /\ location = " LUND "
    /\ locResult = <<[id |-> "17987", name |-> " LUND ", type |-> "kommun"]>>
    /\ browserRenderUrl # ""

---------------------------------------------------------------------------
(* Properties of fetchPage *)

\* C7: whenever the markup fetchPage obtained from the renderer contains the
\* text "Verify you are human" anywhere, the operation has failed with the
\* bot-verification error and carries no value, whatever else the page holds.
C7_ChallengeBlocks ==
    (pc = "done" /\ rendered # <<>>
        /\ includes(Markup(rendered[1]), "Verify you are human")) =>
        outcome = <<[err |-> BlockedError, value |-> <<>>]>>

C7_Witness ==
    /\ op = "fetchPage"
    /\ pc = "done"
    /\ rendered = <<<<Element("img", <<<<"alt", Marker>>>>, <<>>), Card(1, "search")>>>>
    /\ outcome = <<[err |-> BlockedError, value |-> <<>>]>>

---------------------------------------------------------------------------
(* Properties of the summary extraction *)

\* a search or sold search has returned its listings
Searched ==
    /\ pc = "done"
    /\ op \in {"searchHemnet", "searchSoldHemnet"}
    /\ outcome[1].err = ""

\* the anchors of the fetched page that match the listing-link pattern
MatchingAnchors ==
    IF op = "searchHemnet" THEN listingAnchors(rendered[1]) ELSE soldAnchors(rendered[1])

Listings == outcome[1].value[1].listings

\* C8: a search (and a sold search) over a page with n matching anchors returns
\* min(n, 25) records, and the i-th record is the one of the i-th matching
\* anchor in document order (it carries that anchor's link and heading).
C8_CapAndOrder ==
    Searched =>
        \A as \in {MatchingAnchors} :
            /\ Len(Listings) = IF Len(as) <= 25 THEN Len(as) ELSE 25
            /\ \A i \in 1..Len(Listings) :
                  /\ Listings[i].url = absoluteUrl(attr(as[i].el, "href"))
                  /\ IF op = "searchHemnet"
                     THEN Listings[i].title = trim(firstText(find(as[i].el, "h2")))
                     ELSE Listings[i].address = trim(firstText(find(as[i].el, "h2")))

C8_Witness ==
    /\ Searched
    /\ op = "searchSoldHemnet"
    /\ Len(MatchingAnchors) = 27
    /\ Len(byTag(Elements(rendered[1], 1), "a")) = 28
    /\ Len(Listings) = 25
    /\ Listings[25].url = SiteOrigin \o "/salda/lagenhet-25"

\* the texts of the text nodes of a forest
RECURSIVE TextNodes(_, _)
TextNodes(nodes, i) ==
    IF i > Len(nodes) THEN {}
    ELSE (IF isText(nodes[i]) THEN {nodes[i].text} ELSE TextNodes(nodes[i].kids, 1))
         \cup TextNodes(nodes, i + 1)

\* C9: the fee pattern never merges across text nodes: a record of searchHemnet
\* has a non-empty monthlyFee only when one single text node of its anchor
\* holds digits followed by "kr/mån" (so digits and marker in two different
\* text nodes give the empty string).
C9_FeeWithinOneTextNode ==
    (Searched /\ op = "searchHemnet") =>
        \A as \in {MatchingAnchors} :
            \A i \in 1..Len(Listings) :
                Listings[i].monthlyFee # "" =>
                    \E t \in TextNodes(as[i].el.kids, 1) : feeMatch(t) # <<>>

---------------------------------------------------------------------------
(* Properties of the detail extraction *)

\* the dt elements of the fetched page whose text includes the term, as
\* indices into the page's elements in document order
Labels(term) ==
    {i \in 1..Len(Elements(rendered[1], 1)) :
        /\ Elements(rendered[1], 1)[i].el.tag = "dt"
        /\ includes(textOf(Elements(rendered[1], 1)[i].el), term)}

\* the trimmed text of the dd next to the first such dt; "" when no dt includes
\* the term or that dt has no dd next to it
LabelledValue(term) ==
    IF Labels(term) = {} THEN ""
    ELSE trim(nextText(Elements(rendered[1], 1)[Min(Labels(term))], "dd"))

\* C10: for a detail page that is neither a challenge nor a removal page,
\* getListingDetails returns a record (the lookups never raise) in which every
\* field filled by term lookup is the text of the value element next to the
\* first label that contains the field's own term, and the empty string when
\* no label contains it; no field depends on another field's term.
C10_TermLookup ==
    (pc = "done" /\ op = "getListingDetails" /\ rendered # <<>>
        /\ ~ includes(Markup(rendered[1]), Marker)
        /\ ~ isRemoved(Markup(rendered[1]))) =>
        /\ outcome[1].err = ""
        /\ \A f \in TermFields : outcome[1].value[1][f] = LabelledValue(TermOf[f])

C10_Witness ==
    /\ pc = "done"
    /\ op = "getListingDetails"
    /\ outcome[1].err = ""
    /\ Cardinality(Labels("Avgift")) = 2
    /\ Labels("Bostadstyp") = {}
    /\ outcome[1].value[1].monthlyFee = "3 200 kr/mån"
    /\ outcome[1].value[1].propertyType = ""

---------------------------------------------------------------------------
(* Properties of the entry points and the tool handlers *)

\* a step of handling a request: any step taken once the entry point runs
Serving == entry # ""

\* C11 as stated: in every entry point, no step of handling a request changes
\* the renderer settings.
C11_NoRequestWritesConfig ==
    [][Serving => UNCHANGED cfgVars]_vars

\* C11: in the stdio and HTTP entry points no step of handling a request
\* changes the renderer settings; in the worker the only step that writes them
\* is the start of a POST /mcp, which sets each of them that the environment
\* defines to the environment's value and leaves the other alone, so a later
\* request writes the values that are already there.
C11_ConfigWrittenFromEnvOnly ==
    [][/\ entry \in {"stdio", "http"} => UNCHANGED cfgVars
       /\ entry = "worker" =>
            \/ UNCHANGED cfgVars
            \/ /\ op = "" /\ op' = "POST /mcp"
               /\ browserRenderUrl' = IF env.url # "" THEN env.url ELSE browserRenderUrl
               /\ browserRenderApiKey' =
                     IF env.key # "" THEN env.key ELSE browserRenderApiKey
       /\ (entry = "worker" /\ op # "") => UNCHANGED cfgVars]_vars

\* a request has been answered by the HTTP entry point with settings in place
C11_Witness ==
    /\ entry = "http"
    /\ pc = "returned"
    /\ env.url # ""
    /\ browserRenderUrl = env.url
    /\ browserRenderApiKey = env.key
    /\ payload # <<>>

\* C12: once the operation called by a tool handler has settled, the handler's
\* next step returns a payload: the success payload when the operation
\* fulfilled, and when it rejected (location not found, renderer not
\* configured or failing, challenge page, removed listing, invalid URL) the
\* payload with isError set whose text is "Error: " and the error's message.
C12_HandlerReturnsPayload ==
    [][(Serving /\ pc = "done") =>
          /\ pc' = "returned"
          /\ payload' # <<>>
          /\ IF outcome[1].err = ""
             THEN /\ ~ payload'[1].isError
                  /\ payload'[1].result # <<>>
             ELSE /\ payload'[1].isError
                  /\ outcome[1].err # ""
                  /\ payload'[1].text = "Error: " \o outcome[1].err]_vars

\* search_hemnet has answered a location that could not be resolved
C12_Witness ==
    /\ Serving
    /\ pc = "returned"
    /\ op = "searchHemnet"
    /\ location = "atlantis"
    /\ locResult = <<>>
    /\ payload = <<[isError |-> TRUE, text |-> "Error: " \o couldNotFind("atlantis"),
                    result |-> <<>>]>>

---------------------------------------------------------------------------
(* Properties of the searches *)

\* C13: a search called without a location (null or "") never calls
\* findLocationId and issues no lookup request: its only request is the one to
\* the renderer for the search URL, that URL has no location_ids[] parameter,
\* and the location name of the result and of every listing in it is "Sverige".
C13_NoLocationSearchesSverige ==
    (op \in {"searchHemnet", "searchSoldHemnet"} /\ location = "") =>
        /\ pc \in {"pageRender", "done", "returned"}
        /\ locResult = <<>>
        /\ direct = <<>>
        /\ json = <<>>
        /\ \A i \in 1..Len(net) : net[i].via = "renderer" /\ net[i].target = url
        /\ ~ includes(url, "location_ids")
        /\ (outcome # <<>> /\ outcome[1].err = "") =>
              /\ outcome[1].value[1].locationName = "Sverige"
              /\ \A i \in 1..Len(outcome[1].value[1].listings) :
                    outcome[1].value[1].listings[i].location = "Sverige"

\* a nationwide sold search has returned several listings
C13_Witness ==
    /\ op = "searchSoldHemnet"
    /\ location = ""
    /\ pc = "done"
    /\ Len(net) = 1
    /\ outcome # <<>>
    /\ outcome[1].err = ""
    /\ Len(outcome[1].value[1].listings) >= 2
    /\ outcome[1].value[1].listings[2].location = "Sverige"

\* the operation has settled, and the markup fetchPage handed to it contains
\* one of the two texts of a removed listing
RemovedMarkup ==
    /\ pc = "done"
    /\ rendered # <<>>
    /\ ~ isChallenge(Markup(rendered[1]))
    /\ \/ includes(Markup(rendered[1]), "Sidan hittades inte")
       \/ includes(Markup(rendered[1]), "Den här bostaden finns inte längre")

\* C14: when the markup fetchPage returned contains "Sidan hittades inte" or
\* "Den här bostaden finns inte längre", getListingDetails fails with the
\* 'removed' error and returns no record, while searchHemnet and
\* searchSoldHemnet go on to extract listings from it; and nothing but
\* getListingDetails on such markup ever fails with the 'removed' error.
C14_RemovedOnDetailPagesOnly ==
    /\ RemovedMarkup =>
          IF op = "getListingDetails"
          THEN outcome[1] = Rejected(RemovedError)
          ELSE /\ outcome[1].err = ""
               /\ Len(outcome[1].value[1].listings) = 1
    /\ (pc = "done" /\ outcome[1].err = RemovedError) =>
          (op = "getListingDetails" /\ RemovedMarkup)

\* getListingDetails has been given the page of a listing that is gone
C14_Witness ==
    /\ op = "getListingDetails"
    /\ pc = "done"
    /\ rendered # <<>>
    /\ includes(Markup(rendered[1]), "Den här bostaden finns inte längre")
    /\ includes(Markup(rendered[1]), "<dt>Avgift</dt>")
    /\ outcome = <<Rejected(RemovedError)>>

\* a search has been given a page with the text of a page that is not found
C14_SearchCase ==
    /\ op = "searchHemnet"
    /\ RemovedMarkup
    /\ outcome[1].err = ""

---------------------------------------------------------------------------
(* Properties of the HTTP helpers *)

\* C15: a call that enters fetchViaRenderer with no base URL configured fails
\* with the configuration error and issues no request; with a base URL it
\* issues one POST to that URL, with the header "Authorization: Bearer <key>"
\* when an API key is configured and with no Authorization header otherwise.
\* No step ever issues a request to the renderer while the base URL is unset.
C15_RendererNeedsBaseUrl ==
    [][/\ (pc = "idle" /\ op' = "fetchPage") =>
            IF browserRenderUrl = ""
            THEN /\ net' = net
                 /\ pc' = "done"
                 /\ outcome' = <<Rejected(ConfigError)>>
            ELSE /\ Len(net') = Len(net) + 1
                 /\ pc' = "pageRender"
                 /\ net'[Len(net')].via = "renderer"
                 /\ net'[Len(net')].to = browserRenderUrl
                 /\ net'[Len(net')].target = url'
                 /\ net'[Len(net')].auth =
                       IF browserRenderApiKey = "" THEN ""
                       ELSE "Bearer " \o browserRenderApiKey
       /\ (Len(net') > Len(net) /\ net'[Len(net')].via = "renderer") =>
            browserRenderUrl # ""]_vars

\* fetchPage has sent its request to the renderer with the API key
C15_Witness ==
    /\ op = "fetchPage"
    /\ pc = "pageRender"
    /\ browserRenderApiKey = "secret"
    /\ net = <<[via |-> "renderer", to |-> "https://render.example/render",
                target |-> url, auth |-> "Bearer secret"]>>

---------------------------------------------------------------------------
(* Properties of findLocationId and fetchJson *)

\* fetchJson yielded a non-empty array
FirstHit ==
    IF json # <<>> /\ json[1].err = "" /\ json[1].value[1].kind = "array"
       /\ Len(json[1].value[1].items) > 0
    THEN <<json[1].value[1].items[1]>>
    ELSE <<>>

\* findLocationId has returned for a name whose key is in Keys
ReturnedOutside(Keys) ==
    /\ op = "findLocationId"
    /\ pc = "done"
    /\ trim(toLowerCase(location)) \notin Keys

\* findLocationId fulfilled: with null unless fetchJson yielded a non-empty
\* array, and else with a result whose id is the text of the first hit's id
NullUnlessFirstHit ==
    /\ outcome[1] = Fulfilled(locResult)
    /\ FirstHit = <<>> => locResult = <<>>
    /\ FirstHit # <<>> =>
          /\ locResult # <<>>
          /\ locResult[1].id = String(FirstHit[1].id)
          /\ locResult[1].name \in {FirstHit[1].name, location}
          /\ locResult[1].type \in
                {FirstHit[1].location_type[i] : i \in DOMAIN FirstHit[1].location_type}
                \cup {"unknown"}

\* C16: findLocationId never raises; for a name that is not a key of the
\* static table it returns null whatever the lookup gave (transport failure,
\* non-success status, renderer not configured, unparsable body, a value that
\* is no array, an empty array), and it returns a result, built from the first
\* hit, only when the lookup gave a non-empty array.
C16_NullUnlessFirstHit ==
    ReturnedOutside(DOMAIN COMMON_LOCATIONS) => NullUnlessFirstHit

\* the same for the names that are neither a key of the table nor the name of
\* a property every object inherits
C16_ExceptInheritedKeys ==
    ReturnedOutside(DOMAIN COMMON_LOCATIONS \cup InheritedKeys) => NullUnlessFirstHit

---------------------------------------------------------------------------
(* Properties of the filters *)

\* the parameters that do not apply to sold listings
ListingOnlyParams ==
    {"fee_max", "upcoming_open_house", "balcony", "elevator", "new_construction",
     "keywords"}

\* C17: whatever fields the options object carries, none of the parameters of
\* the URL built by buildSoldSearchUrl is fee_max, upcoming_open_house,
\* balcony, elevator, new_construction or keywords.
C17_SoldOmitsListingOnlyParams ==
    AfterSold =>
        \A i \in 1..Len(params) : params[i].name \notin ListingOnlyParams

\* the sold URL has been built from options that carry keywords and a fee limit
C17_Witness ==
    /\ AfterSold
    /\ options.keywords = <<"sea view">>
    /\ options.maxFee = <<2>>
    /\ url = "https://www.hemnet.se/salda/bostader?"

\* the values of the item_types[] parameters, in the order of the URL
ItemTypeValues ==
    LET kept == SelectSeq(params, LAMBDA e : e.name = "item_types[]")
    IN  [i \in 1..Len(kept) |-> kept[i].value]

\* the values C18 expects for the types whose lower-cased name is not in Skip
TypesMapped(Skip) ==
    ((AfterSearch \/ AfterSold) /\ options.propertyTypes # <<>>) =>
        \A types \in {options.propertyTypes[1]} :
            (\A i \in 1..Len(types) : toLowerCase(types[i]) \notin Skip) =>
                /\ Len(ItemTypeValues) = Len(types)
                /\ \A i \in 1..Len(types) :
                      ItemTypeValues[i] =
                          IF toLowerCase(types[i]) \in DOMAIN PROPERTY_TYPES
                          THEN PROPERTY_TYPES[toLowerCase(types[i])]
                          ELSE types[i]

\* C18: the item_types[] values of the built URL are as many as the property
\* types and in their order, each the table's entry for the lower-cased type
\* when the table has one and the type unchanged otherwise.
C18_TypesMappedInOrder == TypesMapped({})

\* the same for the types that do not name a property every object inherits
C18_ExceptInheritedKeys == TypesMapped(InheritedKeys)

\* the parameter the listing age is published as: <<>> when there is none
Published ==
    LET kept == SelectSeq(params, LAMBDA e : e.name = "published")
    IN  [i \in 1..Len(kept) |-> kept[i].value]

\* the value C19 gives for a listing age of n days
AgeToken(n) ==
    CASE n = 1 -> "1d" [] n = 3 -> "3d" [] n = 7 -> "1w" [] n = 14 -> "2w"
      [] n = 30 -> "1m" [] OTHER -> String(n)

\* C19 as stated: every listing age that is set is published, as its token
\* when it is 1, 3, 7, 14 or 30 and as its decimal text otherwise.
C19_EveryAgePublished ==
    (AfterSearch /\ options.daysListed # <<>>) =>
        Published = <<AgeToken(options.daysListed[1])>>

\* C19: a listing age that is set and not 0 is published, as its token when it
\* is 1, 3, 7, 14 or 30 and as its decimal text otherwise; an age of 0 is not
\* published, as an age that is not set.
C19_NonZeroAgePublished ==
    AfterSearch =>
        Published = IF TruthyNum(options.daysListed)
                    THEN <<AgeToken(options.daysListed[1])>>
                    ELSE <<>>

\* a search for listings of the last 30 days has been built
C19_Witness ==
    /\ AfterSearch
    /\ options.daysListed = <<30>>
    /\ options.propertyTypes = <<<<"House", "loft">>>>
    /\ url = "https://www.hemnet.se/bostader?item_types%5B%5D=villa&item_types%5B%5D=loft&published=1m"

\* the step in which fetchJson's direct attempt settles
DirectSettles == pc = "locDirect" /\ pc' # "locDirect"

\* the renderer is asked for the autocomplete URL in this step
AsksRenderer ==
    /\ net' = Append(net, RendererRequest(autocompleteUrl(location)))
    /\ pc' = "locRender"
    /\ json' = <<>>

\* fetchJson with a direct attempt that counts as failed when Failed(resp): it
\* asks the renderer only after a failed direct attempt, and then always (the
\* request is not made when no renderer is configured); otherwise it returns
\* the JSON value of the direct response; and it fails only when neither the
\* direct response nor the rendered page gave a JSON value
DirectFirst(Failed(_)) ==
    /\ DirectSettles =>
          /\ net = <<DirectRequest(autocompleteUrl(location))>>
          /\ direct' # <<>>
          /\ IF Failed(direct'[1])
             THEN IF browserRenderUrl = ""
                  THEN net' = net /\ json' = <<Rejected(ConfigError)>>
                  ELSE AsksRenderer
             ELSE /\ net' = net
                  /\ direct'[1].body \in DOMAIN JsonTexts
                  /\ json' = <<Fulfilled(JsonTexts[direct'[1].body])>>
    /\ (json = <<>> /\ json' # <<>> /\ json'[1].err # "") =>
          /\ Failed(direct'[1])
          /\ pc = "locRender" \/ browserRenderUrl = ""

\* C20: fetchJson makes the direct request first and asks the renderer only
\* after the direct attempt has failed; it falls back to the renderer on every
\* failure of the direct attempt, be it a transport error, a non-success
\* status or a body that is not JSON, and it fails only when neither path gave
\* a JSON value.
C20_FallbackOnAnyDirectFailure ==
    [][DirectFirst(LAMBDA resp :
                      resp.fails \/ ~ resp.ok \/ resp.body \notin DOMAIN JsonTexts)]_vars

\* the same with a direct attempt that counts as failed on a transport error
\* or a non-success status only: a success status with a body that is not
\* JSON makes fetchJson fail at once
C20_ExceptUnparsableBody ==
    [][\/ DirectFirst(LAMBDA resp : resp.fails \/ ~ resp.ok)
       \/ /\ DirectSettles
          /\ ~ direct'[1].fails /\ direct'[1].ok
          /\ direct'[1].body \notin DOMAIN JsonTexts
          /\ net' = net
          /\ json' = <<Rejected("SyntaxError")>>]_vars

---------------------------------------------------------------------------
(* Order of the steps of a search *)

\* the requests of the operation in progress that ask for a page: every
\* request but those for the autocomplete URL of the location
PageRequests == {i \in 1..Len(net) : net[i].target # autocompleteUrl(location)}

\* C21: in searchHemnet and searchSoldHemnet, while the location is being
\* resolved no search URL has been built and no page has been asked for; a
\* page is asked for once, last, and only without a location or with the one
\* findLocationId returned; a location that is not found ends the search with
\* the error that quotes it and without any request for a page; and a page
\* fetch that fails (no markup, or the challenge page) ends it with an error
\* and no listings.
C21_ResolveThenBuildThenFetch ==
    op \in {"searchHemnet", "searchSoldHemnet"} =>
        /\ pc \in {"locDirect", "locRender"} =>
              /\ url = "" /\ rendered = <<>> /\ outcome = <<>>
              /\ PageRequests = {}
        /\ \A i \in PageRequests :
              /\ i = Len(net)
              /\ location = "" \/ locResult # <<>>
              /\ url # "" /\ net[i].via = "renderer" /\ net[i].target = url
        /\ (pc = "done" /\ location # "" /\ locResult = <<>>) =>
              /\ outcome = <<Rejected(couldNotFind(location))>>
              /\ includes(outcome[1].err, "\"" \o location \o "\"")
              /\ url = "" /\ rendered = <<>>
              /\ PageRequests = {}
        /\ (pc = "done" /\ (location = "" \/ locResult # <<>>)) =>
              \A failed \in {rendered = <<>>} :
                 IF failed \/ isChallenge(Markup(rendered[1]))
                 THEN outcome[1].err # "" /\ outcome[1].value = <<>>
                 ELSE outcome[1].err = "" /\ outcome[1].value # <<>>

\* a search for a place the table lacks was answered by both backends with
\* nothing usable: it failed after two requests for the autocomplete URL
C21_Witness ==
    /\ op = "searchSoldHemnet" /\ pc = "done" /\ location = "atlantis"
    /\ Len(net) = 2 /\ net[2].via = "renderer"
    /\ outcome = <<Rejected(couldNotFind("atlantis"))>>

\* a search whose location was resolved over the network lost its page to the
\* challenge: three requests, the last one for the page, and an error
C21_PageFetchFailed ==
    /\ op = "searchHemnet" /\ pc = "done" /\ location = "atlantis"
    /\ locResult # <<>> /\ Len(net) >= 2 /\ PageRequests = {Len(net)}
    /\ rendered # <<>> /\ outcome = <<Rejected(BlockedError)>>

---------------------------------------------------------------------------
(* One attempt per page *)

\* the errors fetchViaRenderer throws once the request has been sent
RendererErrors ==
    {"fetch failed", "Browser render failed", "SyntaxError",
     "Browser render error", "Browser render returned empty HTML"}

\* C22: a tool invocation asks the renderer for a page at most once.  The
\* request is sent only when the base URL is set (else the call fails with
\* the configuration error and nothing is sent); when the renderer's answer
\* is a failure (transport error, error status, body that is no JSON, error
\* member, html missing or empty) the operation settles in that same step with
\* that error and no value, and no request follows it: the handler returns.
C22_OnePageRequestNoRetry ==
    [][ Serving =>
          /\ Cardinality(PageRequests') <= 1
          /\ (pc # "pageRender" /\ pc' = "pageRender") =>
                /\ browserRenderUrl # ""
                /\ PageRequests = {}
                /\ net' = Append(net, RendererRequest(url'))
          /\ (pc = "idle" /\ pc' = "done" /\ outcome'[1].err = ConfigError) =>
                browserRenderUrl = "" /\ net' = net
          /\ pc = "pageRender" =>
                /\ pc' = "done" /\ net' = net
                /\ rendered' = <<>> =>
                      /\ outcome'[1].err \in RendererErrors
                      /\ outcome'[1].value = <<>>
          /\ pc = "done" => pc' = "returned" /\ net' = net
          /\ pc = "returned" => pc' = "idle" /\ net' = <<>>
      ]_vars

\* a search whose location took both lookups lost its page to an error status
\* of the renderer: three requests in all, one of them for the page
C22_Witness ==
    /\ op = "searchHemnet" /\ pc = "returned" /\ location = "atlantis"
    /\ Len(net) = 3 /\ PageRequests = {3}
    /\ outcome = <<Rejected("Browser render failed")>>
    /\ payload # <<>> /\ payload[1].isError

---------------------------------------------------------------------------
(* Attempts of the location lookup *)

\* the requests of the operation in progress for the autocomplete URL
LookupRequests == {i \in 1..Len(net) : net[i].target = autocompleteUrl(location)}

\* C23 as stated: one findLocationId call requests the autocomplete URL at
\* most once in total.
C23_OneLookupRequestInTotal ==
    op = "findLocationId" => Cardinality(LookupRequests) <= 1

\* C23: one findLocationId call requests the autocomplete URL at most once
\* from each backend and never anything else: first directly, and once more
\* through the renderer only when the direct attempt failed or was answered
\* with a non-success status and the renderer is configured; once the
\* renderer has answered, whatever the answer, no request follows.
C23_OneLookupRequestPerBackend ==
    op = "findLocationId" =>
        /\ LookupRequests = 1..Len(net)
        /\ Len(net) <= 2
        /\ Len(net) >= 1 =>
              /\ net[1] = DirectRequest(autocompleteUrl(location))
              /\ Lookup(COMMON_LOCATIONS, normalized(location)) = ""
        /\ Len(net) = 2 =>
              /\ net[2].via = "renderer"
              /\ browserRenderUrl # ""
              /\ direct # <<>> /\ (direct[1].fails \/ ~ direct[1].ok)
        /\ pc = "locDirect" <=> (Len(net) = 1 /\ direct = <<>>)
        /\ pc = "locRender" <=> (Len(net) = 2 /\ json = <<>>)
        /\ pc = "done" => outcome # <<>> /\ (net # <<>> => json # <<>>)

\* both backends failed for a name the table lacks: two requests, the second
\* one through the renderer, and null
C23_Witness ==
    /\ op = "findLocationId" /\ pc = "done" /\ location = "atlantis"
    /\ Len(net) = 2 /\ direct # <<>> /\ direct[1].fails
    /\ json # <<>> /\ json[1].err = "fetch failed"
    /\ locResult = <<>>

---------------------------------------------------------------------------
(* The type of a looked-up location *)

\* findLocationId returned a result built from the first hit of the lookup,
\* and that hit reports a type tag
FirstHitTyped ==
    /\ op = "findLocationId" /\ pc = "done"
    /\ Lookup(COMMON_LOCATIONS, normalized(location)) = ""
    /\ FirstHit # <<>> /\ locResult # <<>>
    /\ FirstHit[1].location_type # <<>>

\* C24 as stated: the type of the result is the tag the first hit reports,
\* whatever the tag.
C24_TypeIsReportedTag ==
    FirstHitTyped => locResult[1].type = FirstHit[1].location_type[1]

\* C24: the type of the result is the tag the first hit reports, character
\* for character (no trimming, no change of case), when that tag is not the
\* empty text; for the empty tag, as for a hit that reports none, it is
\* "unknown".
C24_TypeIsNonEmptyReportedTag ==
    /\ FirstHitTyped =>
          locResult[1].type = IF FirstHit[1].location_type[1] # ""
                              THEN FirstHit[1].location_type[1] ELSE "unknown"
    /\ (op = "findLocationId" /\ pc = "done" /\ FirstHit # <<>> /\ locResult # <<>>
        /\ Lookup(COMMON_LOCATIONS, normalized(location)) = ""
        /\ FirstHit[1].location_type = <<>>) => locResult[1].type = "unknown"

\* the renderer's page held a hit whose tag starts with a space and a capital:
\* the result carries the tag as it is
C24_Witness ==
    /\ FirstHitTyped
    /\ Len(net) = 2
    /\ FirstHit[1].location_type = <<" Street">>
    /\ locResult = <<[id |-> "31", name |-> "Atlantis gata", type |-> " Street"]>>

---------------------------------------------------------------------------
(* The property type of a sold listing *)

\* the type each sold shape names, in the order of SoldShapes
SoldShapeTypes == <<"lägenhet", "villa", "radhus", "fritidshus", "tomt">>

\* the shapes the link of a record contains
ShapesIn(link) == {k \in 1..Len(SoldShapes) : includes(link, SoldShapes[k])}

SoldSearched == Searched /\ op = "searchSoldHemnet"

\* C25: every record of a sold search carries the type named by the
\* /salda/<type>- shape its link contains, and never the empty type.
C25_TypeOfMatchedShape ==
    SoldSearched =>
        \A i \in 1..Len(Listings) :
            /\ Listings[i].propertyType # ""
            /\ \A k \in ShapesIn(Listings[i].url) :
                  Listings[i].propertyType = SoldShapeTypes[k]

\* the type is never empty, it is one of the five, and it is the type of the
\* shape in the link when the link holds no "/villa-", "/lagenhet-", ... text
\* besides that shape
C25_TypeOfOnlySegment ==
    SoldSearched =>
        \A i \in 1..Len(Listings) :
            /\ \E k \in 1..Len(SoldShapes) : Listings[i].propertyType = SoldShapeTypes[k]
            /\ \A k \in ShapesIn(Listings[i].url) :
                  (\A j \in 1..Len(SoldShapes) :
                      j # k => ~ includes(Listings[i].url,
                                          SubSeq(SoldShapes[j], 7, Len(SoldShapes[j]))))
                  => Listings[i].propertyType = SoldShapeTypes[k]

---------------------------------------------------------------------------
(* The image URLs of a detail record *)

\* getListingDetails returned a record
Detailed == op = "getListingDetails" /\ pc = "done" /\ outcome[1].err = ""

\* the images of the fetched page in document order
Images == byTag(Elements(rendered[1], 1), "img")

\* the images whose src names one of the two image hosts
Loaded ==
    {k \in 1..Len(Images) : \/ includes(attr(Images[k].el, "src"), "bilder.hemnet.se")
                            \/ includes(attr(Images[k].el, "src"), "images.hemnet.se")}

\* the first image that carries u in the attribute name (0: none does)
FirstWith(u, name) ==
    IF \E k \in 1..Len(Images) : attr(Images[k].el, name) = u
    THEN Min({k \in 1..Len(Images) : attr(Images[k].el, name) = u})
    ELSE 0

\* C26: the imageUrls of a detail record has at most 10 entries, all
\* different, in the order in which the page first shows them; when some image
\* of the page has a src on an image host every entry is such a src, and only
\* when none has are the entries data-src values.
C26_ImageUrlsCappedDistinctOrdered ==
    Detailed =>
        \A urls \in {outcome[1].value[1]["imageUrls"]} :
            /\ Len(urls) <= 10
            /\ \A i, j \in 1..Len(urls) : i # j => urls[i] # urls[j]
            /\ \A name \in {IF Loaded # {} THEN "src" ELSE "data-src"} :
                  /\ \A i \in 1..Len(urls) :
                        /\ FirstWith(urls[i], name) # 0
                        /\ name = "src" => FirstWith(urls[i], name) \in Loaded
                  /\ \A i, j \in 1..Len(urls) :
                        i < j => FirstWith(urls[i], name) < FirstWith(urls[j], name)
            /\ Loaded # {} => urls # <<>>

\* a page of twelve placeholders with eleven different data-src URLs gave the
\* first ten of them
C26_Witness ==
    /\ Detailed
    /\ Len(Images) = 12 /\ Loaded = {}
    /\ Len(outcome[1].value[1]["imageUrls"]) = 10
    /\ outcome[1].value[1]["imageUrls"][1] = "https://bilder.hemnet.se/lazy/1.jpg"
    /\ outcome[1].value[1]["imageUrls"][10] = "https://bilder.hemnet.se/lazy/10.jpg"

\* a page that mixes loaded and lazy images gave the loaded ones only
C26_LoadedOnly ==
    /\ Detailed
    /\ Len(Images) = 6
    /\ outcome[1].value[1]["imageUrls"] =
          <<"https://images.hemnet.se/1.jpg", "https://bilder.hemnet.se/images/4.jpg",
            "https://images.hemnet.se/5.jpg">>

---------------------------------------------------------------------------
(* The thumbnail of a listing summary *)

\* the candidates of a listing link: for each of its images in document
\* order, the src, the first URL of the srcset and the data-src
RECURSIVE Candidates(_, _)
Candidates(imgs, j) ==
    IF j > Len(imgs) THEN <<>>
    ELSE <<attr(imgs[j].el, "src"), srcsetFirst(attr(imgs[j].el, "srcset")),
           attr(imgs[j].el, "data-src")>> \o Candidates(imgs, j + 1)

\* an absolute URL whose host is one of the site's image hosts
OnImageHost(c) ==
    \E scheme \in {"http://", "https://"}, host \in {"bilder.hemnet.se", "images.hemnet.se"} :
        startsWith(c, scheme \o host \o "/")

\* the first candidate that qualifies ("" when none does)
FirstCandidate(cs, Qualifies(_)) ==
    IF \E k \in 1..Len(cs) : Qualifies(cs[k])
    THEN cs[Min({k \in 1..Len(cs) : Qualifies(cs[k])})]
    ELSE ""

ActiveSearched == Searched /\ op = "searchHemnet"

\* C27: the imageUrl of a listing summary is the first candidate of its link
\* that is an absolute URL on the site's image host, and "" when there is none.
C27_FirstImageHostCandidate ==
    ActiveSearched =>
        \A as \in {MatchingAnchors} :
            \A i \in 1..Len(Listings) :
                Listings[i].imageUrl =
                    FirstCandidate(Candidates(find(as[i].el, "img"), 1), OnImageHost)

\* the imageUrl is the first candidate that starts with "http" and contains
\* "hemnet", and "" when there is none
C27_FirstHttpHemnetCandidate ==
    ActiveSearched =>
        \A as \in {MatchingAnchors} :
            \A i \in 1..Len(Listings) :
                Listings[i].imageUrl =
                    FirstCandidate(Candidates(find(as[i].el, "img"), 1),
                                   LAMBDA c : startsWith(c, "http") /\ includes(c, "hemnet"))

\* the four links of the thumbnail page: srcset before data-src, the second
\* image's data-src, no thumbnail, and the image of another site
C27_ThumbnailPage ==
    /\ ActiveSearched
    /\ Len(Listings) = 4
    /\ Listings[1].imageUrl = "https://bilder.hemnet.se/a.jpg"
    /\ Listings[2].imageUrl = "https://bilder.hemnet.se/c.jpg"
    /\ Listings[3].imageUrl = ""
    /\ Listings[4].imageUrl = "https://maklare.example/hemnet-partner.png"

---------------------------------------------------------------------------
(* What fetchViaRenderer returns *)

\* C28: whatever the renderer answers to the request for a page, an error
\* status, a body with an error message, and a body whose html is missing or
\* empty make fetchViaRenderer fail, and any other JSON answer makes it return
\* that answer's html; so the markup fetchPage got is never empty, and an
\* operation that returned a result extracted it from non-empty markup.
C28_RendererReturnsNonEmptyMarkup ==
    /\ (Serving /\ pc = "pageRender") =>
          \A resp \in PageResponses(op) :
              IF \/ resp.fails \/ ~ resp.ok \/ ~ resp.isJson
                 \/ resp.error # "" \/ Markup(resp.html) = ""
              THEN /\ rendererResult(resp).err # ""
                   /\ rendererResult(resp).value = <<>>
              ELSE rendererResult(resp) = Fulfilled(resp.html)
    /\ (Serving /\ pc = "done") =>
          /\ rendered # <<>> => Markup(rendered[1]) # ""
          /\ (outcome[1].err = "" /\ op # "findLocationId") =>
                rendered # <<>> /\ Markup(rendered[1]) # ""
          /\ outcome[1].err \in RendererErrors =>
                rendered = <<>>
                /\ payload = <<>>

\* the renderer answered the request for a sold-search page with a body
\* without html: the tool returned the error
C28_Witness ==
    /\ op = "searchSoldHemnet" /\ pc = "returned"
    /\ rendered = <<>>
    /\ outcome = <<Rejected("Browser render returned empty HTML")>>
    /\ payload # <<>> /\ payload[1].isError
    /\ payload[1].text = "Error: Browser render returned empty HTML"

---------------------------------------------------------------------------
(* The URL of a detail lookup *)

ListingText == "hemnet.se/bostad/"

\* C29: getListingDetails called with a URL that does not contain
\* "hemnet.se/bostad/" fails at once with the invalid-URL error and sends
\* nothing; every request of a detail lookup is the renderer request for the
\* URL it was called with, and that URL contains the text; a URL that
\* contains it is never refused as invalid.
C29_InvalidUrlBeforeAnyRequest ==
    op = "getListingDetails" =>
        /\ ~ includes(url, ListingText) =>
              /\ pc = "done"
              /\ outcome = <<Rejected(InvalidUrlError)>>
              /\ net = <<>> /\ rendered = <<>>
        /\ \A i \in 1..Len(net) :
              /\ net[i].via = "renderer" /\ net[i].target = url
              /\ includes(url, ListingText)
        /\ includes(url, ListingText) =>
              /\ Len(net) <= 1
              /\ pc = "done" => outcome[1].err # InvalidUrlError

\* a URL that differs from a listing URL in letter case only was refused
C29_Witness ==
    /\ op = "getListingDetails" /\ pc = "done"
    /\ url = "https://www.HEMNET.se/bostad/villa-1"
    /\ outcome = <<Rejected(InvalidUrlError)>>
    /\ net = <<>>

\* a URL of another site that holds the text was fetched
C29_TextAnywhere ==
    /\ op = "getListingDetails" /\ pc = "done"
    /\ url = "https://maklare.example/visa?objekt=hemnet.se/bostad/villa-1"
    /\ Len(net) = 1 /\ outcome[1].err = ""

---------------------------------------------------------------------------
(* Challenge before removal *)

\* getListingDetails has settled on markup that holds the challenge marker
\* and one of the two removal texts
ChallengeAndRemoval ==
    /\ op = "getListingDetails" /\ pc = "done" /\ rendered # <<>>
    /\ \A html \in {Markup(rendered[1])} :
          /\ includes(html, "Verify you are human")
          /\ \/ includes(html, "Sidan hittades inte")
             \/ includes(html, "Den här bostaden finns inte längre")

\* C30: a detail lookup whose markup holds both the challenge marker and a
\* removal text, in either order, fails with the bot-verification error and
\* not with the 'removed' error.
C30_ChallengeBeforeRemoval ==
    ChallengeAndRemoval =>
        /\ outcome = <<Rejected(BlockedError)>>
        /\ outcome[1].err # RemovedError

\* the page shows "Sidan hittades inte" first and the challenge after it
C30_Witness ==
    /\ ChallengeAndRemoval
    /\ rendered = <<<<Tag("h1", "Sidan hittades inte"), Tag("p", Marker)>>>>
    /\ outcome = <<Rejected(BlockedError)>>

=============================================================================
